---- MODULE Spec2Model ----
(***************************************************************************)
(* Model of the validation engine of the "line" validation library:        *)
(* error classification (violation / violation list / fault), the          *)
(* ViolationListError container, Validator.Validate and the argument       *)
(* combinators Sequentially, All, AtLeastOneOf, When and WhenGroups.       *)
(*                                                                         *)
(* A caller builds a tree of arguments bottom-up (This(...), All(...),     *)
(* Sequentially(...), ...) and then hands the arguments built so far to    *)
(* Validator.Validate.  The variable "arguments" holds the arguments built *)
(* so far; every node carries a unique id so that the order in which the   *)
(* validation closures run can be observed in "executed".                  *)
(*                                                                         *)
(* A ViolationListError is modelled by the sequence of the violations of   *)
(* its node chain together with its len field.  Every list the engine      *)
(* joins is freshly allocated by the closure that returns it, so a splice  *)
(* of node chains is the concatenation of the two sequences.               *)
(*                                                                         *)
(* Lists that callers splice themselves (Join, AppendFromError, Filter)    *)
(* are modelled as a heap of linked elements with first/last/len, so that  *)
(* two lists sharing nodes can be observed (SpecHeap, SpecBuilt).          *)
(*                                                                         *)
(* SpecGroups drives WhenGroups and validation groups.  SpecAsync models   *)
(* one call of AsyncArgument.validate: one goroutine per task sending on   *)
(* an unbuffered channel, the goroutine that closes the channel after the  *)
(* wait group, and the caller's receive loop.                              *)
(*                                                                         *)
(* A PropertyPath is a chain of nodes on a heap, each with a pointer to    *)
(* its parent (SpecPath); its text form is written by String and read by   *)
(* the pathParser, one character at a time (SpecRoundTrip, SpecParse).     *)
(* Validators derived from one another are structs on a heap               *)
(* (SpecValidator).  SpecConstraints invokes ChoiceConstraint,             *)
(* CountConstraint and RegexpConstraint through typed arguments, and       *)
(* SpecPlaced places arguments with At, their paths being slices over      *)
(* shared backing arrays.  SpecIgnored switches arguments off with When,  *)
(* and SpecJoin, SpecFilter and SpecForEach join, filter and walk lists.   *)
(***************************************************************************)
EXTENDS Integers, Sequences, FiniteSets, TLC

\* Largest number of argument nodes (leaves and combinators) a caller builds.
MaxNodes == 4

\* Largest length of the list a caller changes directly, and the number of
\* distinct violations and faults a caller has at hand.
MaxLen == 3
MaxErrors == 2

\* Largest number of sub-arguments (tasks) of an Async argument.
MaxTasks == 3

\* Largest number of ViolationListError objects allocated on the heap.
MaxLists == 2

\* Largest number of PropertyPath nodes on the heap of a caller that derives
\* paths from one another, and largest number of elements of a path a caller
\* encodes and parses back.
MaxPathNodes == 4

\* Largest number of characters a caller hands to the parser one by one.
MaxText == 5

\* Largest number of elements of the path of one argument.
MaxPath == 4

\* Largest number of Validator structs a caller derives from one another.
MaxValidators == 4

VARIABLES
    arguments,  \* the arguments built so far, in declaration order
    nextId,     \* id of the next argument node to be built
    pc,         \* "build" while the caller builds arguments, "done" after Validate
    result,     \* the error returned by Validator.Validate
    executed,   \* ids of the arguments whose validation closure ran, in order
    validator,  \* the Validator: path prefix and groups
    violationList, \* a ViolationListError a caller holds and changes directly
    lastCall,   \* the last call made on violationList: its name, argument, return value
                \* and the list as it was before the call
    asyncPc,    \* position of the goroutine running AsyncArgument.validate
    tasks,      \* the goroutines spawned by Async: position and Validate result of each
    waiter,     \* counter of the sync.WaitGroup
    errs,       \* the channel errs: whether it is closed
    received,   \* the loop variable of "for violation := range errs" and its sender
    asyncViolations, \* the list "violations" of AsyncArgument.validate
    asyncResult,     \* what AsyncArgument.validate returned
    asyncCtx,   \* the context derived by context.WithCancel
    callerCtx,  \* the context the caller passed in
    merged,     \* the tasks whose result was joined into asyncViolations, in order
    elements,   \* the heap of ViolationListElementError nodes: violation and next
    lists,      \* the heap of ViolationListError objects: first, last and len
    handed,     \* the lists that were passed to Join, AppendFromError or Filter
    joinedInto, \* the lists that another list was joined into
    heapCall,   \* the last call on the heap: name, receiver, argument, return value
                \* and the list it allocated
    paths,      \* the heap of PropertyPath nodes: parent and value
    built,      \* for every node: whether the caller holds a pointer to it, and the
                \* elements appended from the nil root on to build it, while it was
                \* built by With, WithProperty and WithIndex alone
    pathCall,   \* the last call on a path: name, receiver, argument, return value
                \* and the path it returned
    pathParser, \* the pathParser of the UnmarshalText call in progress
    fed,        \* the characters of the text the loop of Parse has handled
    parsed,     \* the UnmarshalText call: its position, receiver and return value
    validators, \* the heap of Validator structs: propertyPath (a pointer into paths),
                \* violationFactory and groups
    validatorCall, \* the last call that derived a validator: name, receiver, argument,
                \* the receiver's fields and path prefix before the call, and the
                \* validator returned
    arrays,     \* the heap of the backing arrays of the path slices of arguments
    declared    \* for every argument id: the elements the caller passed to At to
                \* build that argument, in order

engineVars == <<arguments, nextId, pc, result, executed, validator>>

listVars == <<violationList, lastCall>>

asyncVars == <<asyncPc, tasks, waiter, errs, received, asyncViolations, asyncResult,
               asyncCtx, callerCtx, merged>>

heapVars == <<elements, lists, handed, joinedInto, heapCall>>

pathVars == <<paths, built, pathCall>>

parseVars == <<pathParser, fed, parsed>>

validatorVars == <<validators, validatorCall>>

sliceVars == <<arrays, declared>>

vars == <<arguments, nextId, pc, result, executed, validator, violationList, lastCall,
          asyncPc, tasks, waiter, errs, received, asyncViolations, asyncResult,
          asyncCtx, callerCtx, merged, elements, lists, handed, joinedInto, heapCall,
          paths, built, pathCall, pathParser, fed, parsed, validators, validatorCall,
          arrays, declared>>

----------------------------------------------------------------------------
(* Error values *)

\* the absent error (nil)
NoError == [kind |-> "nil"]

\* the value of "result" before Validate has returned
Pending == [kind |-> "pending"]

\* a Violation created by the validator's violation builder at a path
Violation(origin, path) == [kind |-> "violation", origin |-> origin, path |-> path]

\* an error that is neither a Violation nor a ViolationListError
Fault(origin) == [kind |-> "fault", origin |-> origin]

\* a non-nil *ViolationListError seen as an error
ListError(list) == [kind |-> "list", list |-> list]

\* fmt.Errorf("...: %w", err): an error that unwraps to err
Wrap(err) == [kind |-> "wrap", inner |-> err]

----------------------------------------------------------------------------
(* ViolationListError *)

\* &ViolationListError{}
EmptyList == [isNil |-> FALSE, elems |-> <<>>, len |-> 0]

\* (*ViolationListError)(nil)
NilList == [isNil |-> TRUE, elems |-> <<>>, len |-> 0]

ListLen(list) == IF list.isNil THEN 0 ELSE list.len

ListAppend(list, violations) ==
    [list EXCEPT !.elems = @ \o violations, !.len = @ + Len(violations)]

NewViolationList(violations) == ListAppend(EmptyList, violations)

\* a Join that links the joined violations in front of the list
JoinInFront(list, violations) ==
    IF violations.isNil \/ violations.len = 0
    THEN list
    ELSE [list EXCEPT !.elems = violations.elems \o @, !.len = @ + violations.len]

Join(list, violations) ==
    IF violations.isNil \/ violations.len = 0
    THEN list
    ELSE [list EXCEPT !.elems = @ \o violations.elems, !.len = @ + violations.len]

\* an AsError that returns the list even when it is empty
AsErrorAlways(list) == ListError(list)

AsError(list) ==
    IF list.isNil \/ list.len = 0 THEN NoError ELSE ListError(list)

RECURSIVE UnwrapViolation(_)
UnwrapViolation(err) ==
    IF err.kind = "violation" THEN [ok |-> TRUE, violation |-> err]
    ELSE IF err.kind = "wrap" THEN UnwrapViolation(err.inner)
    ELSE [ok |-> FALSE, violation |-> NoError]

RECURSIVE UnwrapViolationList(_)
UnwrapViolationList(err) ==
    IF err.kind = "list" THEN [ok |-> TRUE, list |-> err.list]
    ELSE IF err.kind = "wrap" THEN UnwrapViolationList(err.inner)
    ELSE [ok |-> FALSE, list |-> NilList]

\* an AppendFromError that drops an error it cannot classify
AppendFromErrorDropsFault(list, err) ==
    IF err = NoError THEN [list |-> list, err |-> NoError]
    ELSE IF UnwrapViolation(err).ok
    THEN [list |-> ListAppend(list, <<UnwrapViolation(err).violation>>), err |-> NoError]
    ELSE IF UnwrapViolationList(err).ok
    THEN [list |-> Join(list, UnwrapViolationList(err).list), err |-> NoError]
    ELSE [list |-> list, err |-> NoError]

\* list.AppendFromError(err): the list afterwards and the error returned
AppendFromError(list, err) ==
    IF err = NoError THEN [list |-> list, err |-> NoError]
    ELSE IF UnwrapViolation(err).ok
    THEN [list |-> ListAppend(list, <<UnwrapViolation(err).violation>>), err |-> NoError]
    ELSE IF UnwrapViolationList(err).ok
    THEN [list |-> Join(list, UnwrapViolationList(err).list), err |-> NoError]
    ELSE [list |-> list, err |-> err]

\* an unwrapViolationList that reports no fatal error
unwrapViolationListNoFatal(err) ==
    [vs |-> AppendFromError(NewViolationList(<<>>), err).list, err |-> NoError]

\* unwrapViolationList(err): the pair (list, fatal error)
unwrapViolationList(err) ==
    LET r == AppendFromError(NewViolationList(<<>>), err)
    IN  IF r.err # NoError
        THEN [vs |-> NilList, err |-> r.err]
        ELSE [vs |-> r.list, err |-> NoError]

----------------------------------------------------------------------------
(* ViolationListError on the heap: a list is a record of two pointers into   *)
(* the heap of elements and a count; a pointer is an index, 0 is nil.  A     *)
(* heap h is the pair of the elements and the lists allocated so far.        *)

\* a non-nil *ViolationListError, the list at index ref, seen as an error
ListRef(ref) == [kind |-> "listref", ref |-> ref]

\* the error a violation was built for is the last component of its origin;
\* error k wraps the errors 1..k-1, so errors.Is(k, target) holds for target <= k
ViolationIs(violation, target) == target <= violation.origin[3]

\* the elements met by "for e := first; e != nil; e = e.next", at most fuel of them
RECURSIVE Chain(_, _, _)
Chain(h, e, fuel) ==
    IF e = 0 \/ fuel = 0 THEN <<>>
    ELSE <<e>> \o Chain(h, h.elements[e].next, fuel - 1)

\* the loop over a list's elements does not end: the chain runs into a cycle
IsCyclic(h, l) ==
    Len(Chain(h, h.lists[l].first, Len(h.elements) + 1)) > Len(h.elements)

\* list.Append(violations...) from the i-th violation on, for the list at index l
RECURSIVE HeapAppendFrom(_, _, _, _)
HeapAppendFrom(h, l, violations, i) ==
    IF i > Len(violations)
    THEN [h EXCEPT !.lists[l].len = @ + Len(violations)]
    ELSE LET element == Len(h.elements) + 1
             linked == IF h.lists[l].first = 0
                       THEN h.elements
                       ELSE [h.elements EXCEPT ![h.lists[l].last].next = element]
             added == Append(linked, [violation |-> violations[i], next |-> 0])
             first == IF h.lists[l].first = 0 THEN element ELSE h.lists[l].first
         IN  HeapAppendFrom([elements |-> added,
                             lists |-> [h.lists EXCEPT ![l].first = first,
                                                       ![l].last = element]],
                            l, violations, i + 1)

HeapAppend(h, l, violations) == HeapAppendFrom(h, l, violations, 1)

\* list := &ViolationListError{}: the heap with the new list at index Len(h.lists) + 1
HeapAllocate(h) ==
    [h EXCEPT !.lists = Append(@, [first |-> 0, last |-> 0, len |-> 0])]

\* NewViolationList(violations...)
HeapNewViolationList(h, violations) ==
    HeapAppend(HeapAllocate(h), Len(h.lists) + 1, violations)

\* a Join that does not add the length of the joined list
HeapJoinKeepsLen(h, l, m) ==
    IF m = 0 \/ h.lists[m].len = 0
    THEN h
    ELSE LET linked == IF h.lists[l].first = 0
                       THEN h.elements
                       ELSE [h.elements EXCEPT ![h.lists[l].last].next = h.lists[m].first]
             first == IF h.lists[l].first = 0 THEN h.lists[m].first ELSE h.lists[l].first
         IN  [elements |-> linked,
              lists |-> [h.lists EXCEPT ![l].first = first,
                                        ![l].last = h.lists[m].last]]

\* list.Join(violations) for the lists at l and m; m = 0 is a nil pointer
HeapJoin(h, l, m) ==
    IF m = 0 \/ h.lists[m].len = 0
    THEN h
    ELSE LET linked == IF h.lists[l].first = 0
                       THEN h.elements
                       ELSE [h.elements EXCEPT ![h.lists[l].last].next = h.lists[m].first]
             first == IF h.lists[l].first = 0 THEN h.lists[m].first ELSE h.lists[l].first
         IN  [elements |-> linked,
              lists |-> [h.lists EXCEPT ![l].first = first,
                                        ![l].last = h.lists[m].last,
                                        ![l].len = @ + h.lists[m].len]]

\* list.AppendFromError(err): the heap afterwards and the error returned
HeapAppendFromError(h, l, err) ==
    IF err = NoError THEN [h |-> h, err |-> NoError]
    ELSE IF err.kind = "violation" THEN [h |-> HeapAppend(h, l, <<err>>), err |-> NoError]
    ELSE IF err.kind = "listref" THEN [h |-> HeapJoin(h, l, err.ref), err |-> NoError]
    ELSE [h |-> h, err |-> err]

\* list.AsError() for the list at index l
HeapAsError(h, l) == IF l = 0 \/ h.lists[l].len = 0 THEN NoError ELSE ListRef(l)

\* the inner loop of list.Filter: the kinds from the j-th on, for one violation
RECURSIVE HeapFilterKinds(_, _, _, _, _)
HeapFilterKinds(h, filtered, violation, kinds, j) ==
    IF j > Len(kinds) THEN h
    ELSE HeapFilterKinds(IF ViolationIs(violation, kinds[j])
                         THEN HeapAppend(h, filtered, <<violation>>)
                         ELSE h,
                         filtered, violation, kinds, j + 1)

\* a Filter loop that keeps the violations that match none of the kinds as well
RECURSIVE HeapFilterFromKeepsAll(_, _, _, _, _)
HeapFilterFromKeepsAll(h, filtered, chain, kinds, c) ==
    IF c > Len(chain) THEN h
    ELSE HeapFilterFromKeepsAll(
            HeapAppend(HeapFilterKinds(h, filtered, h.elements[chain[c]].violation, kinds, 1),
                       filtered, <<h.elements[chain[c]].violation>>),
            filtered, chain, kinds, c + 1)

\* the outer loop of list.Filter over the elements chain[c], chain[c+1], ...
RECURSIVE HeapFilterFrom(_, _, _, _, _)
HeapFilterFrom(h, filtered, chain, kinds, c) ==
    IF c > Len(chain) THEN h
    ELSE HeapFilterFrom(
            HeapFilterKinds(h, filtered, h.elements[chain[c]].violation, kinds, 1),
            filtered, chain, kinds, c + 1)

\* list.Filter(errs...): the new list is the one at index Len(h.lists) + 1
HeapListFilter(h, l, kinds) ==
    HeapFilterFrom(HeapAllocate(h), Len(h.lists) + 1,
                   Chain(h, h.lists[l].first, Len(h.elements) + 1), kinds, 1)

\* fn(i, violation) of a caller of ForEach: it fails at the indices in fails
ForEachError(i) == [kind |-> "fault", origin |-> <<0, 0, i>>]

\* a ForEach loop that goes on after fn returned an error
RECURSIVE HeapForEachFromNoStop(_, _, _, _)
HeapForEachFromNoStop(h, chain, fails, c) ==
    IF c > Len(chain) THEN [calls |-> <<>>, err |-> NoError]
    ELSE LET call == [i |-> c - 1, violation |-> h.elements[chain[c]].violation]
             r == HeapForEachFromNoStop(h, chain, fails, c + 1)
         IN  [calls |-> <<call>> \o r.calls,
              err |-> IF (c - 1) \in fails THEN ForEachError(c - 1) ELSE r.err]

\* the loop of list.ForEach over the elements chain[c], chain[c+1], ...: the
\* calls of fn it makes, each with its index and violation, and the error returned
RECURSIVE HeapForEachFrom(_, _, _, _)
HeapForEachFrom(h, chain, fails, c) ==
    IF c > Len(chain) THEN [calls |-> <<>>, err |-> NoError]
    ELSE LET call == [i |-> c - 1, violation |-> h.elements[chain[c]].violation]
             r == HeapForEachFrom(h, chain, fails, c + 1)
         IN  IF (c - 1) \in fails
             THEN [calls |-> <<call>>, err |-> ForEachError(c - 1)]
             ELSE [calls |-> <<call>> \o r.calls, err |-> r.err]

\* list.ForEach(fn) for the list at index l; l = 0 is a nil pointer
HeapForEach(h, l, fails) ==
    IF l = 0 THEN [calls |-> <<>>, err |-> NoError]
    ELSE HeapForEachFrom(h, Chain(h, h.lists[l].first, Len(h.elements) + 1), fails, 1)

\* the loop of the package-level Filter from the i-th error on
RECURSIVE FilterFrom(_, _, _, _)
FilterFrom(h, list, violations, i) ==
    IF i > Len(violations)
    THEN [h |-> h, ret |-> HeapAsError(h, list)]
    ELSE LET r == HeapAppendFromError(h, list, violations[i])
         IN  IF r.err # NoError
             THEN [h |-> r.h, ret |-> r.err]
             ELSE FilterFrom(r.h, list, violations, i + 1)

\* Filter(violations...): the heap afterwards and the error returned
Filter(h, violations) == FilterFrom(HeapAllocate(h), Len(h.lists) + 1, violations, 1)

----------------------------------------------------------------------------
(* PropertyPath: a node holds a pointer to its parent and an element.  The    *)
(* heap h of nodes is a sequence, a pointer is an index into it, 0 is nil.    *)
(* A string is the sequence of its characters.                                *)

\* a character that is a digit for unicode.IsDigit and none of '0'..'9'
\* (U+0663, two bytes in UTF-8)
ArabicThree == "U+0663"

Digits == <<"0", "1", "2", "3", "4", "5", "6", "7", "8", "9">>

\* one of '0', '1', ..., '9'
IsAsciiDigit(c) == \E d \in DOMAIN Digits : Digits[d] = c

\* unicode.IsLetter(c) and unicode.IsDigit(c) on the characters in use
IsLetter(c) == c \in {"a", "b", "c", "d"}

IsDigit(c) == IsAsciiDigit(c) \/ c = ArabicThree

\* the nil PropertyPathElement, PropertyName(name) and ArrayIndex(index)
NilValue == [kind |-> "nil"]

PropertyName(name) == [kind |-> "name", name |-> name]

ArrayIndex(index) == [kind |-> "index", index |-> index]

\* &PropertyPath{parent: path, value: value}: the heap with the new node, and the node
NewNode(h, path, value) ==
    [h |-> Append(h, [parent |-> path, value |-> value]), path |-> Len(h) + 1]

\* path.With(elements...) from the i-th element on
RECURSIVE WithFrom(_, _, _, _)
WithFrom(h, current, elems, i) ==
    IF i > Len(elems) THEN [h |-> h, path |-> current]
    ELSE LET n == NewNode(h, current, elems[i])
         IN  WithFrom(n.h, n.path, elems, i + 1)

With(h, path, elems) == WithFrom(h, path, elems, 1)

WithProperty(h, path, name) == NewNode(h, path, PropertyName(name))

WithIndex(h, path, index) == NewNode(h, path, ArrayIndex(index))

\* path.Len()
RECURSIVE PathLen(_, _)
PathLen(h, element) == IF element = 0 THEN 0 ELSE 1 + PathLen(h, h[element].parent)

\* the loop of Elements: elems[i] is set to the value of element, leaf first
RECURSIVE ElementsFill(_, _, _, _)
ElementsFill(h, element, i, elems) ==
    IF element = 0 THEN elems
    ELSE ElementsFill(h, h[element].parent, i - 1, [elems EXCEPT ![i] = h[element].value])

\* an Elements that returns the elements leaf first
RECURSIVE ElementsLeafFirst(_, _)
ElementsLeafFirst(h, path) ==
    IF path = 0 \/ h[path].value = NilValue THEN <<>>
    ELSE <<h[path].value>>
            \o (IF h[path].parent = 0 THEN <<>>
                ELSE ElementsLeafFirst(h, h[path].parent))

\* path.Elements()
Elements(h, path) ==
    IF path = 0 \/ h[path].value = NilValue THEN <<>>
    ELSE ElementsFill(h, path, PathLen(h, path),
                      [k \in 1..PathLen(h, path) |-> NilValue])

isFirstIdentifierChar(c) == IsLetter(c) \/ c = "$" \/ c = "_"

isIdentifierChar(c) == IsLetter(c) \/ IsDigit(c) \/ c = "$" \/ c = "_"

isIdentifier(s) ==
    /\ Len(s) # 0
    /\ \A i \in DOMAIN s :
            /\ i = 1 => isFirstIdentifierChar(s[i])
            /\ i > 1 => isIdentifierChar(s[i])

\* writePropertyName: the name with a backslash before every quote and backslash
RECURSIVE writePropertyName(_)
writePropertyName(name) ==
    IF name = <<>> THEN <<>>
    ELSE (IF Head(name) = "'" \/ Head(name) = "\\"
          THEN <<"\\", Head(name)>>
          ELSE <<Head(name)>>) \o writePropertyName(Tail(name))

\* strconv.Itoa(n) for n >= 0
RECURSIVE Itoa(_)
Itoa(n) == IF n < 10 THEN <<Digits[n + 1]>> ELSE Itoa(n \div 10) \o <<Digits[(n % 10) + 1]>>

\* element.String()
ElementString(element) ==
    IF element.kind = "index" THEN Itoa(element.index) ELSE element.name

\* the second loop of String over elems[i], elems[i+1], ...
RECURSIVE StringFrom(_, _)
StringFrom(elems, i) ==
    IF i > Len(elems) THEN <<>>
    ELSE LET name == ElementString(elems[i])
             piece == IF elems[i].kind = "index" THEN <<"[">> \o name \o <<"]">>
                      ELSE IF isIdentifier(name)
                      THEN (IF i > 1 THEN <<".">> ELSE <<>>) \o name
                      ELSE <<"[", "'">> \o writePropertyName(name) \o <<"'", "]">>
         IN  piece \o StringFrom(elems, i + 1)

\* path.String(); it panics on a nil element
PathString(h, path) == StringFrom(Elements(h, path), 1)

----------------------------------------------------------------------------
(* pathParser: the parser of the text form of a PropertyPath.  A handler     *)
(* yields the parser afterwards and the error it returns.                    *)

\* pathParser{} working on the heap h
NewParser(h) ==
    [h |-> h, path |-> 0, buffer |-> <<>>, index |-> 0, pathIndex |-> 0,
     state |-> "initialState", isEscape |-> FALSE]

newError(parser, message) ==
    [kind |-> "pathParsingError", pathIndex |-> parser.pathIndex, message |-> message]

newCharError(parser, c, message) ==
    [kind |-> "pathParsingCharError", index |-> parser.index,
     pathIndex |-> parser.pathIndex, char |-> c, message |-> message]

newProcessingError(parser, message) ==
    [kind |-> "pathParsingProcessingError", pathIndex |-> parser.pathIndex,
     message |-> message]

Handled(parser) == [parser |-> parser, err |-> NoError]

Rejected(parser, err) == [parser |-> parser, err |-> err]

\* parser.buffer.WriteRune(c)
WriteRune(parser, c) == [parser EXCEPT !.buffer = Append(@, c)]

\* an addProperty that does not count the element
addPropertyNoCount(parser) ==
    LET n == WithProperty(parser.h, parser.path, parser.buffer)
    IN  [parser EXCEPT !.h = n.h, !.path = n.path, !.buffer = <<>>]

addProperty(parser) ==
    LET n == WithProperty(parser.h, parser.path, parser.buffer)
    IN  [parser EXCEPT !.h = n.h, !.path = n.path, !.pathIndex = @ + 1, !.buffer = <<>>]

\* the decimal digits of math.MaxInt (64 bits)
MaxIntDigits == <<"9", "2", "2", "3", "3", "7", "2", "0", "3", "6",
                  "8", "5", "4", "7", "7", "5", "8", "0", "7">>

DigitValue(c) == CHOOSE d \in 0..9 : Digits[d + 1] = c

RECURSIVE StripZeros(_)
StripZeros(s) == IF s # <<>> /\ Head(s) = "0" THEN StripZeros(Tail(s)) ELSE s

\* s > t for two digit strings of the same length
RECURSIVE DigitsGreater(_, _)
DigitsGreater(s, t) ==
    IF s = <<>> THEN FALSE
    ELSE IF Head(s) # Head(t) THEN DigitValue(Head(s)) > DigitValue(Head(t))
    ELSE DigitsGreater(Tail(s), Tail(t))

\* the number written by the digits s is above math.MaxInt: strconv.ParseUint
\* reports ErrRange, or u > math.MaxInt
OutOfRange(s) ==
    LET t == StripZeros(s)
    IN  \/ Len(t) > Len(MaxIntDigits)
        \/ Len(t) = Len(MaxIntDigits) /\ DigitsGreater(t, MaxIntDigits)

\* the number written by the digits s
RECURSIVE ParseUint(_, _)
ParseUint(s, u) == IF s = <<>> THEN u ELSE ParseUint(Tail(s), 10 * u + DigitValue(Head(s)))

addIndex(parser) ==
    LET s == parser.buffer
    IN  IF s = <<>> \/ \E i \in DOMAIN s : ~IsAsciiDigit(s[i])
        THEN Rejected(parser, newProcessingError(parser, <<"invalid array index: ", s>>))
        ELSE IF OutOfRange(s)
        THEN Rejected(parser, newProcessingError(parser, <<"value out of range: ", s>>))
        ELSE LET n == WithIndex(parser.h, parser.path, ParseUint(s, 0))
             IN  Handled([parser EXCEPT !.h = n.h, !.path = n.path,
                                        !.pathIndex = @ + 1, !.buffer = <<>>])

handleOpenBracket(parser, c) ==
    CASE parser.state \in {"beginIdentifierState", "beginIndexState", "indexState",
                           "endBracketedNameState"} ->
            Rejected(parser, newCharError(parser, c, "unexpected char"))
      [] parser.state = "identifierState" ->
            Handled([(IF Len(parser.buffer) > 0 THEN addProperty(parser) ELSE parser)
                        EXCEPT !.state = "beginIndexState"])
      [] parser.state \in {"initialState", "closeBracketState"} ->
            Handled([parser EXCEPT !.state = "beginIndexState"])
      [] parser.state = "bracketedNameState" -> Handled(WriteRune(parser, c))

handleCloseBracket(parser, c) ==
    CASE parser.state = "indexState" ->
            LET r == addIndex(parser)
            IN  IF r.err # NoError THEN r
                ELSE Handled([r.parser EXCEPT !.state = "closeBracketState"])
      [] parser.state = "bracketedNameState" -> Handled(WriteRune(parser, c))
      [] parser.state = "endBracketedNameState" ->
            Handled([addProperty(parser) EXCEPT !.state = "closeBracketState"])
      [] OTHER -> Rejected(parser, newCharError(parser, c, "unexpected close bracket"))

handleDigit(parser, c) ==
    CASE parser.state \in {"beginIndexState", "indexState"} ->
            Handled(WriteRune([parser EXCEPT !.state = "indexState"], c))
      [] parser.state \in {"bracketedNameState", "identifierState"} ->
            Handled(WriteRune(parser, c))
      [] parser.state \in {"initialState", "beginIdentifierState"} ->
            Rejected(parser, newCharError(parser, c, "unexpected identifier character"))
      [] OTHER -> Rejected(parser, newCharError(parser, c, "invalid array index"))

handlePoint(parser, c) ==
    CASE parser.state \in {"beginIdentifierState", "identifierState"} ->
            IF Len(parser.buffer) = 0
            THEN Rejected(parser, newCharError(parser, c, "unexpected point"))
            ELSE Handled([addProperty(parser) EXCEPT !.state = "beginIdentifierState"])
      [] parser.state = "bracketedNameState" -> Handled(WriteRune(parser, c))
      [] parser.state = "closeBracketState" ->
            Handled([parser EXCEPT !.state = "beginIdentifierState"])
      [] OTHER -> Rejected(parser, newCharError(parser, c, "unexpected point"))

handleQuote(parser, c) ==
    IF parser.isEscape
    THEN Handled([WriteRune(parser, c) EXCEPT !.isEscape = FALSE])
    ELSE CASE parser.state = "beginIndexState" ->
                Handled([parser EXCEPT !.state = "bracketedNameState"])
           [] parser.state = "bracketedNameState" ->
                Handled([parser EXCEPT !.state = "endBracketedNameState"])
           [] OTHER -> Rejected(parser, newCharError(parser, c, "unexpected quote"))

handleEscape(parser, c) ==
    IF parser.state # "bracketedNameState"
    THEN Rejected(parser, newCharError(parser, c, "unexpected backslash"))
    ELSE IF parser.isEscape
    THEN Handled([WriteRune(parser, c) EXCEPT !.isEscape = FALSE])
    ELSE Handled([parser EXCEPT !.isEscape = TRUE])

handleOther(parser, c) ==
    CASE parser.state \in {"beginIndexState", "indexState"} ->
            Rejected(parser, newCharError(parser, c, "unexpected array index character"))
      [] parser.state \in {"initialState", "beginIdentifierState", "identifierState"} ->
            IF ~isFirstIdentifierChar(c)
            THEN Rejected(parser, newCharError(parser, c, "unexpected identifier char"))
            ELSE Handled(WriteRune([parser EXCEPT !.state = "identifierState"], c))
      [] parser.state \in {"closeBracketState", "endBracketedNameState"} ->
            Rejected(parser, newCharError(parser, c, "unexpected char"))
      [] OTHER -> Handled(WriteRune(parser, c))

handleNext(parser, c) ==
    CASE c = "[" -> handleOpenBracket(parser, c)
      [] c = "]" -> handleCloseBracket(parser, c)
      [] IsAsciiDigit(c) -> handleDigit(parser, c)
      [] c = "'" -> handleQuote(parser, c)
      [] c = "\\" -> handleEscape(parser, c)
      [] c = "." -> handlePoint(parser, c)
      [] OTHER -> handleOther(parser, c)

\* the path and the error that Parse returns; a nil path is 0
Parsed(h, path, err) == [h |-> h, path |-> path, err |-> err]

\* a finish that accepts a bracketed name without its closing bracket
finishOpenName(parser) ==
    CASE parser.state \in {"beginIdentifierState", "identifierState"} ->
            IF Len(parser.buffer) = 0
            THEN Parsed(parser.h, 0, newError(parser, "incomplete property name"))
            ELSE LET n == WithProperty(parser.h, parser.path, parser.buffer)
                 IN  Parsed(n.h, n.path, NoError)
      [] parser.state \in {"beginIndexState", "indexState"} ->
            Parsed(parser.h, 0, newError(parser, "incomplete array index"))
      [] parser.state = "bracketedNameState" ->
            Parsed(parser.h, 0, newError(parser, "incomplete bracketed property name"))
      [] parser.state = "endBracketedNameState" ->
            LET n == WithProperty(parser.h, parser.path, parser.buffer)
            IN  Parsed(n.h, n.path, NoError)
      [] parser.state = "closeBracketState" -> Parsed(parser.h, parser.path, NoError)
      [] OTHER -> Parsed(parser.h, 0, newError(parser, "unexpected parsing state"))

finish(parser) ==
    CASE parser.state \in {"beginIdentifierState", "identifierState"} ->
            IF Len(parser.buffer) = 0
            THEN Parsed(parser.h, 0, newError(parser, "incomplete property name"))
            ELSE LET n == WithProperty(parser.h, parser.path, parser.buffer)
                 IN  Parsed(n.h, n.path, NoError)
      [] parser.state \in {"beginIndexState", "indexState"} ->
            Parsed(parser.h, 0, newError(parser, "incomplete array index"))
      [] parser.state \in {"bracketedNameState", "endBracketedNameState"} ->
            Parsed(parser.h, 0, newError(parser, "incomplete bracketed property name"))
      [] parser.state = "closeBracketState" -> Parsed(parser.h, parser.path, NoError)
      [] OTHER -> Parsed(parser.h, 0, newError(parser, "unexpected parsing state"))

\* the number of bytes of a character in UTF-8
Utf8Len(c) == IF c = ArabicThree THEN 2 ELSE 1

\* the loop of Parse from the i-th character on, which is at byte offset
RECURSIVE ParseFrom(_, _, _, _)
ParseFrom(parser, encodedPath, i, offset) ==
    IF i > Len(encodedPath) THEN finish(parser)
    ELSE LET r == handleNext([parser EXCEPT !.index = offset], encodedPath[i])
         IN  IF r.err # NoError
             THEN Parsed(r.parser.h, 0, r.err)
             ELSE ParseFrom(r.parser, encodedPath, i + 1, offset + Utf8Len(encodedPath[i]))

\* parser.Parse(encodedPath) for a new parser; an empty text yields &PropertyPath{}
Parse(h, encodedPath) ==
    IF Len(encodedPath) = 0
    THEN LET n == NewNode(h, 0, NilValue) IN Parsed(n.h, n.path, NoError)
    ELSE ParseFrom(NewParser(h), encodedPath, 1, 0)

\* path.UnmarshalText(text): *path = *p when the text parses; the nodes a
\* failed parse allocated are unreachable
UnmarshalText(h, path, text) ==
    LET r == Parse(h, text)
    IN  IF r.path = 0 \/ r.err # NoError
        THEN [h |-> h, err |-> r.err]
        ELSE [h |-> [r.h EXCEPT ![path] = r.h[r.path]], err |-> NoError]

----------------------------------------------------------------------------
(* Validator *)

DefaultGroup == "default"

NewValidator == [propertyPath |-> <<>>, groups |-> <<>>]

\* validator.At(path...)
ValidatorAt(v, path) == [v EXCEPT !.propertyPath = @ \o path]

\* slices.Contains(groups, g)
Contains(groups, g) == \E i \in DOMAIN groups : groups[i] = g

\* validator.WithGroups(groups...)
WithGroups(v, groups) == [v EXCEPT !.groups = groups]

\* an IsAppliedForGroups that never reads an empty caller list as the default group
IsAppliedForGroupsNoDefault(v, groups) ==
    \/ /\ Len(v.groups) = 0
       /\ Contains(groups, DefaultGroup)
    \/ \E i \in DOMAIN v.groups : Contains(groups, v.groups[i])

\* validator.IsAppliedForGroups(groups...)
IsAppliedForGroups(v, groups) ==
    \/ /\ Len(v.groups) = 0
       /\ (Len(groups) = 0 \/ Contains(groups, DefaultGroup))
    \/ \E i \in DOMAIN v.groups :
            \/ Len(groups) = 0 /\ v.groups[i] = DefaultGroup
            \/ Contains(groups, v.groups[i])

\* validator.IsIgnoredForGroups(groups...)
IsIgnoredForGroups(v, groups) == ~IsAppliedForGroups(v, groups)

\* A Validator on the heap: vs is the sequence of the Validator structs allocated
\* so far, a *Validator is an index into it; propertyPath is a *PropertyPath.

\* NewValidator(options...) with the factory the options leave
NewValidatorOn(vs, factory) ==
    [vs |-> Append(vs, [propertyPath |-> 0, violationFactory |-> factory, groups |-> <<>>]),
     v |-> Len(vs) + 1]

\* a copy that hands back the receiver itself
copyAliased(vs, receiver) == [vs |-> vs, v |-> receiver]

\* validator.copy()
copy(vs, receiver) ==
    [vs |-> Append(vs, [propertyPath |-> vs[receiver].propertyPath,
                        violationFactory |-> vs[receiver].violationFactory,
                        groups |-> vs[receiver].groups]),
     v |-> Len(vs) + 1]

\* validator.WithGroups(groups...) on the heap
WithGroupsOn(vs, receiver, groups) ==
    LET c == copy(vs, receiver)
    IN  [vs |-> [c.vs EXCEPT ![c.v].groups = groups], v |-> c.v]

\* validator.At(path...) on the heap; h is the heap of PropertyPath nodes
AtOn(h, vs, receiver, path) ==
    LET c == copy(vs, receiver)
        w == With(h, c.vs[c.v].propertyPath, path)
    IN  [h |-> w.h, vs |-> [c.vs EXCEPT ![c.v].propertyPath = w.path], v |-> c.v]

\* validator.AtProperty(name) on the heap
AtPropertyOn(h, vs, receiver, name) ==
    LET c == copy(vs, receiver)
        w == WithProperty(h, c.vs[c.v].propertyPath, name)
    IN  [h |-> w.h, vs |-> [c.vs EXCEPT ![c.v].propertyPath = w.path], v |-> c.v]

\* validator.AtIndex(index) on the heap
AtIndexOn(h, vs, receiver, index) ==
    LET c == copy(vs, receiver)
        w == WithIndex(h, c.vs[c.v].propertyPath, index)
    IN  [h |-> w.h, vs |-> [c.vs EXCEPT ![c.v].propertyPath = w.path], v |-> c.v]

----------------------------------------------------------------------------
(* Arguments *)

\* what a constraint of a This(...) argument returns when it is invoked
ConstraintOutcomes == {"ok", "violation", "list", "fault"}

\* constraint.Validate(ctx, validator, v) for the i-th constraint of argument id
ConstraintValidate(outcome, id, i, v) ==
    CASE outcome = "ok" -> NoError
      [] outcome = "violation" -> Violation(<<id, i, 1>>, v.propertyPath)
      [] outcome = "list" ->
            ListError(NewViolationList(<<Violation(<<id, i, 1>>, v.propertyPath),
                                         Violation(<<id, i, 2>>, v.propertyPath)>>))
      [] outcome = "fault" -> Fault(<<id, i, 0>>)

Arg(type, id, constraints, args, isTrue, groups, thenArgs, elseArgs) ==
    [type |-> type, id |-> id, path |-> <<>>, isIgnored |-> FALSE,
     constraints |-> constraints, arguments |-> args,
     isTrue |-> isTrue, groups |-> groups,
     thenArguments |-> thenArgs, elseArguments |-> elseArgs]

\* This(v, constraints...): a ValidatorArgument running the constraints in order
This(id, constraints) == Arg("This", id, constraints, <<>>, TRUE, <<>>, <<>>, <<>>)

Sequentially(id, args) == Arg("Sequentially", id, <<>>, args, TRUE, <<>>, <<>>, <<>>)

AtLeastOneOf(id, args) == Arg("AtLeastOneOf", id, <<>>, args, TRUE, <<>>, <<>>, <<>>)

All(id, args) == Arg("All", id, <<>>, args, TRUE, <<>>, <<>>, <<>>)

\* Async(arguments...)
Async(id, args) == Arg("Async", id, <<>>, args, TRUE, <<>>, <<>>, <<>>)

\* arg.When(condition) of ValidatorArgument, SequentialArgument,
\* AtLeastOneOfArgument, AllArgument and AsyncArgument
ArgumentWhen(arg, condition) == [arg EXCEPT !.isIgnored = ~condition]

\* When(isTrue).Then(thenArgs...).Else(elseArgs...)
When(id, isTrue, thenArgs, elseArgs) ==
    Arg("When", id, <<>>, <<>>, isTrue, <<>>, thenArgs, elseArgs)

\* WhenGroups(groups...).Then(thenArgs...).Else(elseArgs...)
WhenGroups(id, groups, thenArgs, elseArgs) ==
    Arg("WhenGroups", id, <<>>, <<>>, TRUE, groups, thenArgs, elseArgs)

----------------------------------------------------------------------------
(* The constraints ChoiceConstraint, CountConstraint and RegexpConstraint and *)
(* the arguments Comparable, Countable and String that invoke them.  A value  *)
(* is a pointer to a string, NilValue for a nil pointer; a regular expression *)
(* is the set of the strings it matches, NilValue for a nil *regexp.Regexp.   *)

\* &value
Pointer(value) == [kind |-> "value", value |-> value]

\* validator.CreateConstraintError(constraintName, description)
CreateConstraintError(v, constraintName, description) ==
    [kind |-> "constraint", ConstraintName |-> constraintName, Path |-> v.propertyPath,
     Description |-> description]

\* IsOneOf(values...) and the options WithoutBlank, When, WhenGroups
ChoiceConstraint(choices, disallowBlank, isIgnored, groups) ==
    [type |-> "ChoiceConstraint", choices |-> choices, disallowBlank |-> disallowBlank,
     isIgnored |-> isIgnored, groups |-> groups]

\* HasCountDivisibleBy(divisor) and the options When, WhenGroups
HasCountDivisibleBy(divisor, isIgnored, groups) ==
    [type |-> "CountConstraint", checkDivisible |-> TRUE, divisibleBy |-> divisor,
     checkMin |-> FALSE, min |-> 0, checkMax |-> FALSE, max |-> 0,
     isIgnored |-> isIgnored, groups |-> groups]

\* HasMinCount(min) and the options When, WhenGroups
HasMinCount(min, isIgnored, groups) ==
    [type |-> "CountConstraint", checkDivisible |-> FALSE, divisibleBy |-> 0,
     checkMin |-> TRUE, min |-> min, checkMax |-> FALSE, max |-> 0,
     isIgnored |-> isIgnored, groups |-> groups]

\* Matches(regex), DoesNotMatch(regex) and the options When, WhenGroups
RegexpConstraint(regex, match, isIgnored, groups) ==
    [type |-> "RegexpConstraint", regex |-> regex, match |-> match,
     isIgnored |-> isIgnored, groups |-> groups]

\* c.ValidateComparable(ctx, validator, value) of a ChoiceConstraint
ValidateComparable(c, origin, v, value) ==
    IF c.choices = {}
    THEN CreateConstraintError(v, "ChoiceConstraint", "empty list of choices")
    ELSE IF \/ c.isIgnored
            \/ IsIgnoredForGroups(v, c.groups)
            \/ value = NilValue
            \/ ~c.disallowBlank /\ value.value = ""
    THEN NoError
    ELSE IF value.value \in c.choices
    THEN NoError
    ELSE Violation(origin, v.propertyPath)

\* c.ValidateCountable(ctx, validator, count) of a CountConstraint
ValidateCountable(c, origin, v, count) ==
    IF c.isIgnored \/ IsIgnoredForGroups(v, c.groups)
    THEN NoError
    ELSE IF c.checkDivisible /\ c.divisibleBy <= 0
    THEN CreateConstraintError(v, "CountConstraint", "divisibleBy must be greater than zero")
    ELSE IF c.checkDivisible /\ count % c.divisibleBy # 0
    THEN Violation(origin, v.propertyPath)
    ELSE IF c.checkMax /\ count > c.max
    THEN Violation(origin, v.propertyPath)
    ELSE IF c.checkMin /\ count < c.min
    THEN Violation(origin, v.propertyPath)
    ELSE NoError

\* c.ValidateString(ctx, validator, value) of a RegexpConstraint
ValidateString(c, origin, v, value) ==
    IF c.regex = NilValue
    THEN CreateConstraintError(v, "RegexpConstraint", "nil regex")
    ELSE IF \/ c.isIgnored
            \/ IsIgnoredForGroups(v, c.groups)
            \/ value = NilValue
            \/ value.value = ""
    THEN NoError
    ELSE IF c.match = (value.value \in c.regex.matches)
    THEN NoError
    ELSE Violation(origin, v.propertyPath)

\* Comparable(value, constraints...), NilComparable(value, constraints...),
\* Countable(count, constraints...), String(value, constraints...) and
\* NilString(value, constraints...)
TypedArg(type, id, value, constraints) ==
    [type |-> type, id |-> id, path |-> <<>>, isIgnored |-> FALSE, value |-> value,
     constraints |-> constraints, arguments |-> <<>>, isTrue |-> TRUE, groups |-> <<>>,
     thenArguments |-> <<>>, elseArguments |-> <<>>]

\* the call the closure of a typed argument makes on its i-th constraint
TypedConstraintValidate(arg, i, v) ==
    CASE arg.type = "Comparable" ->
            ValidateComparable(arg.constraints[i], <<arg.id, i, 1>>, v, arg.value)
      [] arg.type = "Countable" ->
            ValidateCountable(arg.constraints[i], <<arg.id, i, 1>>, v, arg.value)
      [] arg.type = "String" ->
            ValidateString(arg.constraints[i], <<arg.id, i, 1>>, v, arg.value)

\* the loop of validateComparable, validateCountable and validateString
RECURSIVE TypedLoop(_, _, _, _)
TypedLoop(arg, v, i, violations) ==
    IF i > Len(arg.constraints)
    THEN [vs |-> violations, err |-> NoError]
    ELSE LET r == AppendFromError(violations, TypedConstraintValidate(arg, i, v))
         IN  IF r.err # NoError
             THEN [vs |-> NilList, err |-> r.err]
             ELSE TypedLoop(arg, v, i + 1, r.list)

\* the closures validateComparable, validateCountable and validateString make
TypedValidate(arg, v) ==
    LET r == TypedLoop(arg, v, 1, NewViolationList(<<>>))
    IN  [vs |-> r.vs, err |-> r.err, exec |-> <<arg.id>>]

----------------------------------------------------------------------------
(* The path of an argument is a slice []PropertyPathElement: a pointer to a   *)
(* backing array, a length and the capacity, which is the length of the       *)
(* array.  as is the heap of the backing arrays allocated so far.  Arguments  *)
(* are values: At works on a copy of its receiver, and the copy's slice       *)
(* points to the receiver's backing array.                                     *)

NilSlice == [array |-> 0, len |-> 0]

\* cap(s)
Cap(as, s) == IF s.array = 0 THEN 0 ELSE Len(as[s.array])

\* the elements s[0], ..., s[len(s)-1]
SliceElements(as, s) == IF s.array = 0 THEN <<>> ELSE SubSeq(as[s.array], 1, s.len)

\* the capacity of the array append allocates for newLen elements when the
\* capacity oldCap is too small: twice the old capacity, or newLen if that is more
growslice(oldCap, newLen) == IF newLen > 2 * oldCap THEN newLen ELSE 2 * oldCap

\* append(s, elems...): the heap afterwards and the slice returned
append(as, s, elems) ==
    IF s.len + Len(elems) <= Cap(as, s)
    THEN [as |-> IF s.array = 0 THEN as
                 ELSE [as EXCEPT ![s.array] =
                        [i \in DOMAIN @ |->
                            IF i > s.len /\ i <= s.len + Len(elems)
                            THEN elems[i - s.len] ELSE @[i]]],
          slice |-> [s EXCEPT !.len = @ + Len(elems)]]
    ELSE LET newCap == growslice(Cap(as, s), s.len + Len(elems))
             new == SliceElements(as, s) \o elems
         IN  [as |-> Append(as, [i \in 1..newCap |->
                                    IF i <= Len(new) THEN new[i] ELSE NilValue]),
              slice |-> [array |-> Len(as) + 1, len |-> Len(new)]]

\* arg.At(path...) of every kind of argument: the heap afterwards and the
\* argument returned
ArgumentAt(as, arg, path) ==
    LET r == append(as, arg.path, path)
    IN  [as |-> r.as, arg |-> [arg EXCEPT !.path = r.slice]]

\* an argument as Validate reads it: the path of every argument of the tree is
\* the elements its slice holds when Validate is called
RECURSIVE Resolve(_, _)
ResolveAll(as, args) == [i \in DOMAIN args |-> Resolve(as, args[i])]

Resolve(as, arg) ==
    [arg EXCEPT !.path = SliceElements(as, @),
                !.arguments = ResolveAll(as, @),
                !.thenArguments = ResolveAll(as, @),
                !.elseArguments = ResolveAll(as, @)]

----------------------------------------------------------------------------
(* executionContext *)

\* ctx.addValidation(validate, path...): the closure runs validate under validator.At(path...)
addValidation(ctx, arg, path) == ctx \o <<[validate |-> arg, path |-> path]>>

\* argument.setUp(ctx)
setUp(ctx, arg) ==
    IF arg.type = "This" /\ arg.isIgnored THEN ctx ELSE addValidation(ctx, arg, arg.path)

RECURSIVE setUpAll(_, _, _)
setUpAll(ctx, args, i) ==
    IF i > Len(args) THEN ctx ELSE setUpAll(setUp(ctx, args[i]), args, i + 1)

----------------------------------------------------------------------------
(* Validator.Validate and the validate closures of the arguments.          *)
(* Validate yields [err, exec]: the error returned and the ids of the      *)
(* closures that ran; a closure yields [vs, err, exec].                    *)

RECURSIVE Validate(_, _), RunValidations(_, _, _, _, _), ArgValidate(_, _),
          SequentialLoop(_, _, _, _, _), AtLeastOneOfLoop(_, _, _, _, _),
          AllLoop(_, _, _, _, _)

\* the closure of This: AppendFromError of every constraint's error, in order
RECURSIVE ThisLoop(_, _, _, _)
ThisLoop(arg, v, i, violations) ==
    IF i > Len(arg.constraints)
    THEN [vs |-> violations, err |-> NoError]
    ELSE LET r == AppendFromError(violations,
                      ConstraintValidate(arg.constraints[i], arg.id, i, v))
         IN  IF r.err # NoError
             THEN [vs |-> NilList, err |-> r.err]
             ELSE ThisLoop(arg, v, i + 1, r.list)

ThisValidate(arg, v) ==
    LET r == ThisLoop(arg, v, 1, NewViolationList(<<>>))
    IN  [vs |-> r.vs, err |-> r.err, exec |-> <<arg.id>>]

\* a When that runs the Else arguments when the condition is true
WhenValidateInverted(arg, v) ==
    LET r == IF arg.isTrue
             THEN Validate(v, arg.elseArguments)
             ELSE Validate(v, arg.thenArguments)
        u == unwrapViolationList(r.err)
    IN  [vs |-> u.vs, err |-> u.err, exec |-> <<arg.id>> \o r.exec]

\* WhenArgument.validate
WhenValidate(arg, v) ==
    LET r == IF arg.isTrue
             THEN Validate(v, arg.thenArguments)
             ELSE Validate(v, arg.elseArguments)
        u == unwrapViolationList(r.err)
    IN  [vs |-> u.vs, err |-> u.err, exec |-> <<arg.id>> \o r.exec]

\* a WhenGroups that runs the Then arguments when the validator is ignored
WhenGroupsValidateInverted(arg, v) ==
    LET r == IF IsIgnoredForGroups(v, arg.groups)
             THEN Validate(v, arg.thenArguments)
             ELSE Validate(v, arg.elseArguments)
        u == unwrapViolationList(r.err)
    IN  [vs |-> u.vs, err |-> u.err, exec |-> <<arg.id>> \o r.exec]

\* WhenGroupsArgument.validate
WhenGroupsValidate(arg, v) ==
    LET r == IF IsIgnoredForGroups(v, arg.groups)
             THEN Validate(v, arg.elseArguments)
             ELSE Validate(v, arg.thenArguments)
        u == unwrapViolationList(r.err)
    IN  [vs |-> u.vs, err |-> u.err, exec |-> <<arg.id>> \o r.exec]

\* a Sequentially loop that does not stop at a failing sub-argument
SequentialLoopNoStop(arg, v, i, violations, exec) ==
    IF i > Len(arg.arguments)
    THEN [vs |-> violations, err |-> NoError, exec |-> exec]
    ELSE LET r == Validate(v, <<arg.arguments[i]>>)
             a == AppendFromError(violations, r.err)
         IN  IF a.err # NoError
             THEN [vs |-> NilList, err |-> a.err, exec |-> exec \o r.exec]
             ELSE SequentialLoop(arg, v, i + 1, a.list, exec \o r.exec)

\* the loop of SequentialArgument.validate from the i-th sub-argument on
SequentialLoop(arg, v, i, violations, exec) ==
    IF i > Len(arg.arguments)
    THEN [vs |-> violations, err |-> NoError, exec |-> exec]
    ELSE LET r == Validate(v, <<arg.arguments[i]>>)
             a == AppendFromError(violations, r.err)
         IN  IF a.err # NoError
             THEN [vs |-> NilList, err |-> a.err, exec |-> exec \o r.exec]
             ELSE IF a.list.len > 0
             THEN [vs |-> a.list, err |-> NoError, exec |-> exec \o r.exec]
             ELSE SequentialLoop(arg, v, i + 1, a.list, exec \o r.exec)

\* a Sequentially that runs its sub-arguments whatever When was given
SequentialValidateAlways(arg, v) ==
    SequentialLoop(arg, v, 1, EmptyList, <<arg.id>>)

\* SequentialArgument.validate
SequentialValidate(arg, v) ==
    IF arg.isIgnored
    THEN [vs |-> EmptyList, err |-> NoError, exec |-> <<arg.id>>]
    ELSE SequentialLoop(arg, v, 1, EmptyList, <<arg.id>>)

\* an AtLeastOneOf loop that keeps the violations collected before a success
AtLeastOneOfLoopKeeps(arg, v, i, violations, exec) ==
    IF i > Len(arg.arguments)
    THEN [vs |-> violations, err |-> NoError, exec |-> exec]
    ELSE LET r == Validate(v, <<arg.arguments[i]>>)
             a == AppendFromError(violations, r.err)
         IN  IF r.err = NoError
             THEN [vs |-> violations, err |-> NoError, exec |-> exec \o r.exec]
             ELSE IF a.err # NoError
             THEN [vs |-> NilList, err |-> a.err, exec |-> exec \o r.exec]
             ELSE AtLeastOneOfLoop(arg, v, i + 1, a.list, exec \o r.exec)

\* an AtLeastOneOf loop that returns at the first failing sub-argument
AtLeastOneOfLoopFirstFailure(arg, v, i, violations, exec) ==
    IF i > Len(arg.arguments)
    THEN [vs |-> violations, err |-> NoError, exec |-> exec]
    ELSE LET r == Validate(v, <<arg.arguments[i]>>)
             a == AppendFromError(violations, r.err)
         IN  IF r.err = NoError
             THEN [vs |-> EmptyList, err |-> NoError, exec |-> exec \o r.exec]
             ELSE IF a.err # NoError
             THEN [vs |-> NilList, err |-> a.err, exec |-> exec \o r.exec]
             ELSE [vs |-> a.list, err |-> NoError, exec |-> exec \o r.exec]

\* the loop of AtLeastOneOfArgument.validate from the i-th sub-argument on
AtLeastOneOfLoop(arg, v, i, violations, exec) ==
    IF i > Len(arg.arguments)
    THEN [vs |-> violations, err |-> NoError, exec |-> exec]
    ELSE LET r == Validate(v, <<arg.arguments[i]>>)
             a == AppendFromError(violations, r.err)
         IN  IF r.err = NoError
             THEN [vs |-> EmptyList, err |-> NoError, exec |-> exec \o r.exec]
             ELSE IF a.err # NoError
             THEN [vs |-> NilList, err |-> a.err, exec |-> exec \o r.exec]
             ELSE AtLeastOneOfLoop(arg, v, i + 1, a.list, exec \o r.exec)

AtLeastOneOfValidate(arg, v) ==
    IF arg.isIgnored
    THEN [vs |-> EmptyList, err |-> NoError, exec |-> <<arg.id>>]
    ELSE AtLeastOneOfLoop(arg, v, 1, EmptyList, <<arg.id>>)

\* an All loop that stops at the first sub-argument with violations
AllLoopStops(arg, v, i, violations, exec) ==
    IF i > Len(arg.arguments)
    THEN [vs |-> violations, err |-> NoError, exec |-> exec]
    ELSE LET r == Validate(v, <<arg.arguments[i]>>)
             a == AppendFromError(violations, r.err)
         IN  IF a.err # NoError
             THEN [vs |-> NilList, err |-> a.err, exec |-> exec \o r.exec]
             ELSE IF a.list.len > 0
             THEN [vs |-> a.list, err |-> NoError, exec |-> exec \o r.exec]
             ELSE AllLoop(arg, v, i + 1, a.list, exec \o r.exec)

\* the loop of AllArgument.validate from the i-th sub-argument on
AllLoop(arg, v, i, violations, exec) ==
    IF i > Len(arg.arguments)
    THEN [vs |-> violations, err |-> NoError, exec |-> exec]
    ELSE LET r == Validate(v, <<arg.arguments[i]>>)
             a == AppendFromError(violations, r.err)
         IN  IF a.err # NoError
             THEN [vs |-> NilList, err |-> a.err, exec |-> exec \o r.exec]
             ELSE AllLoop(arg, v, i + 1, a.list, exec \o r.exec)

AllValidate(arg, v) ==
    IF arg.isIgnored
    THEN [vs |-> EmptyList, err |-> NoError, exec |-> <<arg.id>>]
    ELSE AllLoop(arg, v, 1, EmptyList, <<arg.id>>)

\* the validate closure of an argument, run under validator v
ArgValidate(arg, v) ==
    CASE arg.type = "This" -> ThisValidate(arg, v)
      [] arg.type = "When" -> WhenValidate(arg, v)
      [] arg.type = "WhenGroups" -> WhenGroupsValidate(arg, v)
      [] arg.type = "Sequentially" -> SequentialValidate(arg, v)
      [] arg.type = "AtLeastOneOf" -> AtLeastOneOfValidate(arg, v)
      [] arg.type = "All" -> AllValidate(arg, v)
      [] arg.type \in {"Comparable", "Countable", "String"} -> TypedValidate(arg, v)

\* a Validate loop that goes on to the next closure after a closure's error
RunValidationsKeepGoing(v, validations, i, violations, exec) ==
    IF i > Len(validations)
    THEN [err |-> AsError(violations), exec |-> exec]
    ELSE LET r == ArgValidate(validations[i].validate,
                              ValidatorAt(v, validations[i].path))
         IN  RunValidations(v, validations, i + 1, Join(violations, r.vs),
                            exec \o r.exec)

\* the loop of Validator.Validate over execContext.validations from the i-th on
RunValidations(v, validations, i, violations, exec) ==
    IF i > Len(validations)
    THEN [err |-> AsError(violations), exec |-> exec]
    ELSE LET r == ArgValidate(validations[i].validate,
                              ValidatorAt(v, validations[i].path))
         IN  IF r.err # NoError
             THEN [err |-> r.err, exec |-> exec \o r.exec]
             ELSE RunValidations(v, validations, i + 1, Join(violations, r.vs),
                                 exec \o r.exec)

\* validator.Validate(ctx, arguments...)
Validate(v, args) ==
    RunValidations(v, setUpAll(<<>>, args, 1), 1, EmptyList, <<>>)

----------------------------------------------------------------------------
(* The caller: builds arguments, then validates them *)

\* the constraints of the This(...) arguments a caller builds; a combinator is
\* built over at least one argument, a When over at least one in Then or Else
ThisConstraints == {<<"ok">>, <<"violation">>, <<"fault">>}

\* no call has been made on violationList yet
NoCall == [op |-> "none", err |-> NoError, ret |-> NoError, before |-> EmptyList]

\* nothing has been received from errs yet; AsyncArgument.validate has not returned
NoReceived == [task |-> 0, err |-> Pending]
NoResult == [vs |-> NilList, err |-> Pending]

\* no call has been made on the heap yet
NoHeapCall == [op |-> "none", list |-> 0, arg |-> <<>>, ret |-> NoError, new |-> 0]

\* no call has been made on a path yet; no UnmarshalText call is in progress
NoPathCall == [op |-> "none", path |-> 0, arg |-> <<>>, ret |-> NoError, new |-> 0]
NoValidatorCall ==
    [op |-> "none", validator |-> 0, arg |-> <<>>, before |-> NilValue, prefix |-> <<>>,
     new |-> 0]
NoParsed ==
    [pc |-> "idle", receiver |-> 0, before |-> NilValue, atEnd |-> FALSE,
     path |-> 0, err |-> Pending]

\* the last k arguments built, and the ones before them
LastArgs(k) == SubSeq(arguments, Len(arguments) - k + 1, Len(arguments))
FirstArgs(k) == SubSeq(arguments, 1, Len(arguments) - k)

Init ==
    /\ arguments = <<>>
    /\ nextId = 1
    /\ pc = "build"
    /\ result = Pending
    /\ executed = <<>>
    /\ validator = NewValidator
    /\ violationList = EmptyList
    /\ lastCall = NoCall
    /\ asyncPc = "idle"
    /\ tasks = <<>>
    /\ waiter = 0
    /\ errs = [closed |-> FALSE]
    /\ received = NoReceived
    /\ asyncViolations = NilList
    /\ asyncResult = NoResult
    /\ asyncCtx = [cancelled |-> FALSE]
    /\ callerCtx = [cancelled |-> FALSE]
    /\ merged = <<>>
    /\ elements = <<>>
    /\ lists = <<>>
    /\ handed = {}
    /\ joinedInto = {}
    /\ heapCall = NoHeapCall
    /\ paths = <<>>
    /\ built = <<>>
    /\ pathCall = NoPathCall
    /\ pathParser = NewParser(<<>>)
    /\ fed = <<>>
    /\ parsed = NoParsed
    /\ validators = <<>>
    /\ validatorCall = NoValidatorCall
    /\ arrays = <<>>
    /\ declared = <<>>

Build(arg, k) ==
    /\ pc = "build"
    /\ nextId <= MaxNodes
    /\ arguments' = FirstArgs(k) \o <<arg>>
    /\ nextId' = nextId + 1
    /\ UNCHANGED <<pc, result, executed, validator>>
    /\ UNCHANGED <<listVars, asyncVars, heapVars, pathVars, parseVars, validatorVars, sliceVars>>

CallThis == \E cs \in ThisConstraints : Build(This(nextId, cs), 0)

CallSequentially == \E k \in 1..Len(arguments) : Build(Sequentially(nextId, LastArgs(k)), k)

CallAtLeastOneOf == \E k \in 1..Len(arguments) : Build(AtLeastOneOf(nextId, LastArgs(k)), k)

CallAll == \E k \in 1..Len(arguments) : Build(All(nextId, LastArgs(k)), k)

CallWhen ==
    \E isTrue \in BOOLEAN : \E k \in 1..Len(arguments) : \E n \in 0..k :
        Build(When(nextId, isTrue, SubSeq(LastArgs(k), 1, n), SubSeq(LastArgs(k), n + 1, k)), k)

\* the group lists a caller passes to WhenGroups
SomeGroups == {<<"admin">>}

CallWhenGroups ==
    \E groups \in SomeGroups : \E k \in 1..Len(arguments) : \E n \in 0..k :
        Build(WhenGroups(nextId, groups, SubSeq(LastArgs(k), 1, n),
                         SubSeq(LastArgs(k), n + 1, k)), k)

CallValidate ==
    /\ pc = "build"
    /\ LET r == Validate(validator, arguments)
       IN  /\ result' = r.err
           /\ executed' = r.exec
    /\ pc' = "done"
    /\ UNCHANGED <<arguments, nextId, validator>>
    /\ UNCHANGED <<listVars, asyncVars, heapVars, pathVars, parseVars, validatorVars, sliceVars>>

Next ==
    \/ CallThis
    \/ CallSequentially
    \/ CallAtLeastOneOf
    \/ CallAll
    \/ CallWhen
    \/ CallWhenGroups
    \/ CallValidate

Spec == Init /\ [][Next]_vars

----------------------------------------------------------------------------
(* A caller working with validation groups: the validator is derived with    *)
(* WithGroups and the arguments are This(...) and WhenGroups(...)            *)

\* the group lists a caller passes to WithGroups and to WhenGroups
GroupLists == {<<>>, <<"admin">>, <<DefaultGroup>>, <<"admin", DefaultGroup>>}

\* validator.WithGroups(groups...).Validate(ctx, arguments...)
CallValidateWithGroups ==
    /\ pc = "build"
    /\ \E groups \in GroupLists :
            LET r == Validate(WithGroups(validator, groups), arguments)
            IN  /\ validator' = WithGroups(validator, groups)
                /\ result' = r.err
                /\ executed' = r.exec
    /\ pc' = "done"
    /\ UNCHANGED <<arguments, nextId>>
    /\ UNCHANGED <<listVars, asyncVars, heapVars, pathVars, parseVars, validatorVars, sliceVars>>

CallWhenGroupsOf ==
    \E groups \in GroupLists : \E k \in 1..Len(arguments) : \E n \in 0..k :
        Build(WhenGroups(nextId, groups, SubSeq(LastArgs(k), 1, n),
                         SubSeq(LastArgs(k), n + 1, k)), k)

NextGroups ==
    \/ CallThis
    \/ CallWhenGroupsOf
    \/ CallValidateWithGroups

SpecGroups == Init /\ [][NextGroups]_vars

----------------------------------------------------------------------------
(* A caller working on one ViolationListError directly *)

\* the violations, lists and errors a caller has at hand
SomeViolations == {Violation(<<0, 0, k>>, <<>>) : k \in 1..MaxErrors}

SomeLists ==
    {NilList, EmptyList}
        \cup {NewViolationList(<<x>>) : x \in SomeViolations}
        \cup {NewViolationList(<<x, y>>) : x \in SomeViolations, y \in SomeViolations}

SomeErrors ==
    LET plain == SomeViolations
                    \cup {ListError(l) : l \in SomeLists}
                    \cup {Fault(<<0, 0, k>>) : k \in 1..MaxErrors}
    IN  {NoError} \cup plain \cup {Wrap(e) : e \in plain}

ListCall(op, err, ret, after) ==
    /\ after.len <= MaxLen
    /\ lastCall' = [op |-> op, err |-> err, ret |-> ret, before |-> violationList]
    /\ violationList' = after
    /\ UNCHANGED <<engineVars, asyncVars, heapVars, pathVars, parseVars, validatorVars, sliceVars>>

CallAppend == \E x \in SomeViolations : ListCall("Append", x, NoError, ListAppend(violationList, <<x>>))

CallJoin ==
    \E l \in SomeLists : ListCall("Join", AsError(l), NoError, Join(violationList, l))

CallAppendFromError ==
    \E e \in SomeErrors :
        LET r == AppendFromError(violationList, e)
        IN  ListCall("AppendFromError", e, r.err, r.list)

NextList ==
    \/ CallAppend
    \/ CallJoin
    \/ CallAppendFromError

SpecList == Init /\ [][NextList]_vars

----------------------------------------------------------------------------
(* A caller working on ViolationListError objects that share elements *)

Heap == [elements |-> elements, lists |-> lists]

\* the violations a loop over the list at l yields, cut off after one more step
\* than there are elements when the chain is cyclic
Yields(h, l) ==
    LET chain == Chain(h, h.lists[l].first, Len(h.elements) + 1)
    IN  [k \in DOMAIN chain |-> h.elements[chain[k]].violation]

\* the violation a caller appends next: the violations at hand, taken in turn
HeapViolations == {Violation(<<0, 0, (Len(elements) % MaxErrors) + 1>>, <<>>)}

\* the errors a caller passes to AppendFromError and Filter, the kinds it
\* passes to list.Filter
HeapErrors ==
    HeapViolations \cup {ListRef(m) : m \in DOMAIN lists} \cup {Fault(<<0, 0, 1>>)}

FilterKinds == {<<k>> : k \in 1..MaxErrors} \cup {<<1, 2>>}

\* the lists among the errors es
Refs(es) == {es[i].ref : i \in {j \in DOMAIN es : es[j].kind = "listref"}}

HeapCall(op, l, arg, ret, new, h, given, joined) ==
    /\ Len(h.lists) <= MaxLists
    /\ Len(h.elements) <= MaxLen
    /\ \A k \in DOMAIN h.lists : h.lists[k].len <= MaxLen
    /\ elements' = h.elements
    /\ lists' = h.lists
    /\ handed' = handed \cup given
    /\ joinedInto' = joinedInto \cup joined
    /\ heapCall' = [op |-> op, list |-> l, arg |-> arg, ret |-> ret, new |-> new]
    /\ UNCHANGED <<engineVars, listVars, asyncVars, pathVars, parseVars, validatorVars, sliceVars>>

NewViolationListCall ==
    \E vs \in {<<>>} \cup {<<x>> : x \in HeapViolations} :
        HeapCall("other", 0, <<>>, NoError, Len(lists) + 1,
                 HeapNewViolationList(Heap, vs), {}, {})

\* lists[l].Append(x)
AppendOn(l) ==
    \E x \in HeapViolations :
        HeapCall("other", 0, <<>>, NoError, 0, HeapAppend(Heap, l, <<x>>), {}, {})

AppendCall == \E l \in DOMAIN lists : AppendOn(l)

\* lists[l].Join(lists[m]), or lists[l].Join(nil) when m = 0
JoinOn(l, m) ==
    HeapCall("Join", l, m, NoError, 0, HeapJoin(Heap, l, m), {m} \ {0},
             IF m # 0 /\ lists[m].len > 0 THEN {l} ELSE {})

\* the caller joins a list into another list, never into itself
JoinCall == \E l \in DOMAIN lists : \E m \in 0..Len(lists) : m # l /\ JoinOn(l, m)

AppendFromErrorCall ==
    \E l \in DOMAIN lists : \E e \in (HeapErrors \cup {NoError}) \ {ListRef(l)} :
        LET r == HeapAppendFromError(Heap, l, e)
        IN  HeapCall("other", 0, <<>>, NoError, 0, r.h, Refs(<<e>>),
                     IF Refs(<<e>>) # {} THEN {l} ELSE {})

FilterCall ==
    \E es \in {<<e>> : e \in HeapErrors} \cup {<<e, f>> : e \in HeapErrors, f \in HeapErrors} :
        LET r == Filter(Heap, es)
        IN  HeapCall("other", 0, <<>>, NoError, 0, r.h, Refs(es),
                     {Len(lists) + 1})

\* lists[l].Filter(kinds...); the call does not return on a list whose chain is cyclic
ListFilterOn(l, kinds) ==
    /\ ~IsCyclic(Heap, l)
    /\ HeapCall("ListFilter", l, kinds, NoError, Len(lists) + 1,
                HeapListFilter(Heap, l, kinds), {}, {})

ListFilterCall == \E l \in DOMAIN lists : \E kinds \in FilterKinds : ListFilterOn(l, kinds)

\* the indices at which the fn a caller passes to ForEach fails
ForEachFails == {{}, {0}, {2}, {1, 2}}

\* lists[l].ForEach(fn), or ForEach on a nil list when l = 0; the call does not
\* return on a list whose chain is cyclic
ForEachOn(l, fails) ==
    /\ l # 0 => ~IsCyclic(Heap, l)
    /\ HeapCall("ForEach", l, fails, HeapForEach(Heap, l, fails), 0, Heap, {}, {})

ForEachCall == \E l \in 0..Len(lists) : \E fails \in ForEachFails : ForEachOn(l, fails)

NextHeap ==
    \/ NewViolationListCall
    \/ AppendCall
    \/ JoinCall
    \/ AppendFromErrorCall
    \/ FilterCall
    \/ ListFilterCall

SpecHeap == Init /\ [][NextHeap]_vars

\* A caller that builds every list with NewViolationList and Append alone and
\* joins or filters lists built that way: a list is joined only while it has
\* neither been joined into nor been handed to another list.
BuiltByAppend(l) == l \notin handed /\ l \notin joinedInto

AppendToBuilt == \E l \in DOMAIN lists : BuiltByAppend(l) /\ AppendOn(l)

JoinBuilt ==
    \E l \in DOMAIN lists : \E m \in 0..Len(lists) :
        /\ BuiltByAppend(l)
        /\ m # 0 => (m # l /\ BuiltByAppend(m))
        /\ JoinOn(l, m)

NextBuilt ==
    \/ NewViolationListCall
    \/ AppendToBuilt
    \/ JoinBuilt
    \/ ListFilterCall

SpecBuilt == Init /\ [][NextBuilt]_vars

\* the caller joins any list into any list, itself included
JoinAnyCall == \E l \in DOMAIN lists : \E m \in 0..Len(lists) : JoinOn(l, m)

\* a caller that only appends and joins
NextJoin ==
    \/ NewViolationListCall
    \/ AppendCall
    \/ JoinAnyCall

SpecJoin == Init /\ [][NextJoin]_vars

\* a caller that filters lists built by Append with kinds that repeat or overlap
RepeatedKinds == {<<k, k>> : k \in 1..MaxErrors}

ListFilterAnyCall ==
    \E l \in DOMAIN lists : \E kinds \in FilterKinds \cup RepeatedKinds :
        ListFilterOn(l, kinds)

NextFilter ==
    \/ NewViolationListCall
    \/ AppendToBuilt
    \/ JoinBuilt
    \/ ListFilterAnyCall

SpecFilter == Init /\ [][NextFilter]_vars

\* the same caller, which also walks its lists with ForEach
NextForEach ==
    \/ NewViolationListCall
    \/ AppendToBuilt
    \/ JoinBuilt
    \/ ForEachCall

SpecForEach == Init /\ [][NextForEach]_vars

----------------------------------------------------------------------------
(* Async: validator.Validate(ctx, Async(arguments...)).  AsyncArgument.validate *)
(* spawns one goroutine per sub-argument; each validates its sub-argument and *)
(* sends the error on the unbuffered channel errs, which blocks until the     *)
(* caller's goroutine receives it, and then calls waiter.Done().  One more    *)
(* goroutine closes errs once the wait group is at zero.                      *)

\* the constraints of the This(...) sub-arguments a caller gives to Async
AsyncConstraints == ThisConstraints \cup {<<"violation", "violation">>}

CallThisForAsync ==
    /\ nextId <= MaxTasks
    /\ \E cs \in AsyncConstraints : Build(This(nextId, cs), 0)

\* AsyncArgument.validate up to the range loop: derive the context, spawn the
\* tasks and the closing goroutine; an ignored Async returns at once
AsyncStart ==
    /\ pc = "build"
    /\ asyncPc = "idle"
    /\ pc' = "async"
    /\ \E isIgnored \in BOOLEAN :
            IF isIgnored
            THEN /\ asyncPc' = "returned"
                 /\ asyncResult' = [vs |-> EmptyList, err |-> NoError]
                 /\ UNCHANGED <<tasks, waiter, asyncViolations>>
            ELSE /\ asyncPc' = "receive"
                 /\ tasks' = [i \in DOMAIN arguments |-> [pc |-> "running", err |-> Pending]]
                 /\ waiter' = Len(arguments)
                 /\ asyncViolations' = EmptyList
                 /\ UNCHANGED asyncResult
    /\ UNCHANGED <<arguments, nextId, result, executed, validator>>
    /\ UNCHANGED <<errs, received, asyncCtx, callerCtx, merged>>
    /\ UNCHANGED <<listVars, heapVars, pathVars, parseVars, validatorVars, sliceVars>>

\* a task that joins its violations into the list of the range loop itself
TaskValidateShared(i) ==
    /\ tasks[i].pc = "running"
    /\ LET r == AppendFromError(asyncViolations, Validate(validator, <<arguments[i]>>).err)
       IN  /\ asyncViolations' = r.list
           /\ tasks' = [tasks EXCEPT ![i] = [pc |-> "sending", err |-> r.err]]
    /\ UNCHANGED <<asyncPc, waiter, errs, received, asyncResult,
                   asyncCtx, callerCtx, merged>>
    /\ UNCHANGED <<engineVars, listVars, heapVars, pathVars, parseVars, validatorVars, sliceVars>>

\* a task: validator.Validate(ctx, argument) returns; the task is at the send
TaskValidate(i) ==
    /\ tasks[i].pc = "running"
    /\ tasks' = [tasks EXCEPT ![i] = [pc |-> "sending",
                                      err |-> Validate(validator, <<arguments[i]>>).err]]
    /\ UNCHANGED <<asyncPc, waiter, errs, received, asyncViolations, asyncResult,
                   asyncCtx, callerCtx, merged>>
    /\ UNCHANGED <<engineVars, listVars, heapVars, pathVars, parseVars, validatorVars, sliceVars>>

\* the range loop receives what task i sends
Receive(i) ==
    /\ asyncPc = "receive"
    /\ tasks[i].pc = "sending"
    /\ received' = [task |-> i, err |-> tasks[i].err]
    /\ tasks' = [tasks EXCEPT ![i].pc = "sent"]
    /\ asyncPc' = "merge"
    /\ UNCHANGED <<waiter, errs, asyncViolations, asyncResult, asyncCtx, callerCtx, merged>>
    /\ UNCHANGED <<engineVars, listVars, heapVars, pathVars, parseVars, validatorVars, sliceVars>>

\* a task that ends without waiter.Done()
TaskDoneNoDone(i) ==
    /\ tasks[i].pc = "sent"
    /\ tasks' = [tasks EXCEPT ![i].pc = "done"]
    /\ UNCHANGED <<asyncPc, waiter, errs, received, asyncViolations, asyncResult, asyncCtx,
                   callerCtx, merged>>
    /\ UNCHANGED <<engineVars, listVars, heapVars, pathVars, parseVars, validatorVars, sliceVars>>

\* a task after its send: the deferred waiter.Done()
TaskDone(i) ==
    /\ tasks[i].pc = "sent"
    /\ tasks' = [tasks EXCEPT ![i].pc = "done"]
    /\ waiter' = waiter - 1
    /\ UNCHANGED <<asyncPc, errs, received, asyncViolations, asyncResult, asyncCtx,
                   callerCtx, merged>>
    /\ UNCHANGED <<engineVars, listVars, heapVars, pathVars, parseVars, validatorVars, sliceVars>>

\* a closing goroutine that does not wait for the tasks
CloseErrsNoWait ==
    /\ asyncPc \in {"receive", "merge"}
    /\ ~errs.closed
    /\ errs' = [closed |-> TRUE]
    /\ UNCHANGED <<asyncPc, tasks, waiter, received, asyncViolations, asyncResult,
                   asyncCtx, callerCtx, merged>>
    /\ UNCHANGED <<engineVars, listVars, heapVars, pathVars, parseVars, validatorVars, sliceVars>>

\* the closing goroutine: waiter.Wait(); close(errs)
CloseErrs ==
    /\ asyncPc # "idle"
    /\ tasks # <<>> \/ asyncPc # "returned"
    /\ waiter = 0
    /\ ~errs.closed
    /\ errs' = [closed |-> TRUE]
    /\ UNCHANGED <<asyncPc, tasks, waiter, received, asyncViolations, asyncResult,
                   asyncCtx, callerCtx, merged>>
    /\ UNCHANGED <<engineVars, listVars, heapVars, pathVars, parseVars, validatorVars, sliceVars>>

\* a loop body that replaces the list by the received one
AsyncMergeOverwrites ==
    /\ asyncPc = "merge"
    /\ LET r == AppendFromError(EmptyList, received.err)
       IN  IF r.err # NoError
           THEN /\ asyncResult' = [vs |-> NilList, err |-> r.err]
                /\ asyncPc' = "returned"
                /\ asyncCtx' = [cancelled |-> TRUE]
                /\ UNCHANGED <<asyncViolations, merged>>
           ELSE /\ asyncViolations' = r.list
                /\ merged' = Append(merged, received.task)
                /\ asyncPc' = "receive"
                /\ UNCHANGED <<asyncResult, asyncCtx>>
    /\ UNCHANGED <<tasks, waiter, errs, received, callerCtx>>
    /\ UNCHANGED <<engineVars, listVars, heapVars, pathVars, parseVars, validatorVars, sliceVars>>

\* a loop body that returns the fatal error without the deferred cancel
AsyncMergeNoCancel ==
    /\ asyncPc = "merge"
    /\ LET r == AppendFromError(asyncViolations, received.err)
       IN  IF r.err # NoError
           THEN /\ asyncResult' = [vs |-> NilList, err |-> r.err]
                /\ asyncPc' = "returned"
                /\ UNCHANGED <<asyncViolations, merged, asyncCtx>>
           ELSE /\ asyncViolations' = r.list
                /\ merged' = Append(merged, received.task)
                /\ asyncPc' = "receive"
                /\ UNCHANGED <<asyncResult, asyncCtx>>
    /\ UNCHANGED <<tasks, waiter, errs, received, callerCtx>>
    /\ UNCHANGED <<engineVars, listVars, heapVars, pathVars, parseVars, validatorVars, sliceVars>>

\* the body of the range loop: AppendFromError of the received error; a fatal
\* error is returned at once, and the deferred cancel() runs
AsyncMerge ==
    /\ asyncPc = "merge"
    /\ LET r == AppendFromError(asyncViolations, received.err)
       IN  IF r.err # NoError
           THEN /\ asyncResult' = [vs |-> NilList, err |-> r.err]
                /\ asyncPc' = "returned"
                /\ asyncCtx' = [cancelled |-> TRUE]
                /\ UNCHANGED <<asyncViolations, merged>>
           ELSE /\ asyncViolations' = r.list
                /\ merged' = Append(merged, received.task)
                /\ asyncPc' = "receive"
                /\ UNCHANGED <<asyncResult, asyncCtx>>
    /\ UNCHANGED <<tasks, waiter, errs, received, callerCtx>>
    /\ UNCHANGED <<engineVars, listVars, heapVars, pathVars, parseVars, validatorVars, sliceVars>>

\* the range loop ends on the closed channel: return violations, nil, and the
\* deferred cancel() runs
AsyncReturn ==
    /\ asyncPc = "receive"
    /\ errs.closed
    /\ asyncResult' = [vs |-> asyncViolations, err |-> NoError]
    /\ asyncPc' = "returned"
    /\ asyncCtx' = [cancelled |-> TRUE]
    /\ UNCHANGED <<tasks, waiter, errs, received, asyncViolations, callerCtx, merged>>
    /\ UNCHANGED <<engineVars, listVars, heapVars, pathVars, parseVars, validatorVars, sliceVars>>

NextAsync ==
    \/ CallThisForAsync
    \/ AsyncStart
    \/ \E i \in DOMAIN tasks : TaskValidate(i)
    \/ \E i \in DOMAIN tasks : Receive(i)
    \/ \E i \in DOMAIN tasks : TaskDone(i)
    \/ CloseErrs
    \/ AsyncMerge
    \/ AsyncReturn

SpecAsync == Init /\ [][NextAsync]_vars

\* the steps of the goroutine of task i, of the closing goroutine and of the
\* goroutine that runs AsyncArgument.validate
TaskStep(i) == i \in DOMAIN tasks /\ (TaskValidate(i) \/ TaskDone(i))

CollectorStep == (\E i \in DOMAIN tasks : Receive(i)) \/ AsyncMerge \/ AsyncReturn

\* The scheduler runs every goroutine that can take a step.  The caller is free
\* never to build an argument or call Validate.
AsyncFairness ==
    /\ \A i \in 1..MaxTasks : WF_vars(TaskStep(i))
    /\ WF_vars(CloseErrs)
    /\ WF_vars(CollectorStep)

SpecAsyncLive == Init /\ [][NextAsync]_vars /\ AsyncFairness

----------------------------------------------------------------------------
(* A caller deriving property paths from one another and decoding text into  *)
(* paths it holds                                                            *)

\* the texts a caller has at hand
SomeTexts == {<<>>, <<"a", "[">>, <<"a", "[", "0", "]">>}

\* what is recorded of a node: a node the parser or the loop of With made on
\* the way is not held by the caller
NotByWith(held) == [held |-> held, pure |-> FALSE, elems |-> <<>>]

ByWith(held, elems) == [held |-> held, pure |-> TRUE, elems |-> elems]

\* the record of the nil root, of a node, and of the nodes that With(elems...)
\* makes on the path p
BuiltOf(p) == IF p = 0 THEN ByWith(TRUE, <<>>) ELSE built[p]

BuiltWith(p, elems) ==
    built \o [i \in 1..Len(elems) |->
                IF BuiltOf(p).pure
                THEN ByWith(i = Len(elems), BuiltOf(p).elems \o SubSeq(elems, 1, i))
                ELSE NotByWith(i = Len(elems))]

\* the pointers a caller can call a method on: nil and the nodes it holds
Held == {0} \cup {p \in DOMAIN paths : built[p].held}

\* the node p is on the chain of parents that starts at q
RECURSIVE OnChain(_, _, _)
OnChain(h, q, p) == q # 0 /\ (q = p \/ OnChain(h, h[q].parent, p))

\* of a call on this heap only the error returned is recorded, and whether it
\* was a call that derives a path
PathCall(op, ret, h, b) ==
    /\ Len(h) <= MaxPathNodes
    /\ paths' = h
    /\ built' = b
    /\ pathCall' = [op |-> op, path |-> 0, arg |-> <<>>, ret |-> ret, new |-> 0]
    /\ UNCHANGED <<engineVars, listVars, asyncVars, heapVars, parseVars, validatorVars, sliceVars>>

\* var path PropertyPath, or new(PropertyPath): a node with no parent and no
\* value; a caller that declares one does so before it derives other paths
ZeroPathCall ==
    LET n == NewNode(paths, 0, NilValue)
    IN  paths = <<>> /\ PathCall("new", NoError, n.h, Append(built, NotByWith(TRUE)))

\* paths[p].With(elems...); With() returns the receiver
WithOn(p, elems) ==
    LET r == With(paths, p, elems)
    IN  PathCall("With", NoError, r.h, BuiltWith(p, elems))

\* the element lists a caller passes to With
WithArguments == {<<>>, <<PropertyName(<<"a">>)>>, <<ArrayIndex(0), PropertyName(<<"a">>)>>}

WithCall == \E p \in Held : \E elems \in WithArguments : WithOn(p, elems)

WithPropertyOn(p, name) ==
    LET r == WithProperty(paths, p, name)
    IN  PathCall("With", NoError, r.h, BuiltWith(p, <<PropertyName(name)>>))

WithPropertyCall == \E p \in Held : WithPropertyOn(p, <<"a">>)

WithIndexOn(p, index) ==
    LET r == WithIndex(paths, p, index)
    IN  PathCall("With", NoError, r.h, BuiltWith(p, <<ArrayIndex(index)>>))

WithIndexCall == \E p \in Held : WithIndexOn(p, 0)

\* paths[p].UnmarshalText(text) on a path the caller holds
UnmarshalTextOn(p, text) ==
    LET r == UnmarshalText(paths, p, text)
        b == [q \in DOMAIN r.h |->
                IF q > Len(paths) THEN NotByWith(FALSE)
                ELSE IF OnChain(paths, q, p) THEN NotByWith(built[q].held)
                ELSE built[q]]
    IN  PathCall("UnmarshalText", r.err, r.h, b)

UnmarshalTextCall ==
    \E p \in Held \ {0} : \E text \in SomeTexts : UnmarshalTextOn(p, text)

NextPath ==
    \/ ZeroPathCall
    \/ WithCall
    \/ WithPropertyCall
    \/ WithIndexCall
    \/ UnmarshalTextCall

SpecPath == Init /\ [][NextPath]_vars

----------------------------------------------------------------------------
(* A caller that builds one path element by element, encodes it with         *)
(* MarshalText and decodes the text into a new path with UnmarshalText       *)

\* the elements a caller appends: identifiers, an identifier with a digit
\* that is not one of '0'..'9', the empty name, names with a quote and with a
\* backslash, a name that starts with a digit, and indices
RoundTripElements ==
    {PropertyName(<<"a">>), PropertyName(<<"b">>), PropertyName(<<"a", "1">>),
     PropertyName(<<"a", ArabicThree>>), PropertyName(<<>>),
     PropertyName(<<"c", "'", "d">>), PropertyName(<<"\\", "]">>),
     PropertyName(<<"1", "a">>), ArrayIndex(3), ArrayIndex(10)}

\* the path built so far: the node made last, nil before the first
Latest == Len(paths)

ExtendPath ==
    /\ pathCall.op # "RoundTrip"
    /\ \E e \in RoundTripElements : WithOn(Latest, <<e>>)

\* text, _ := path.MarshalText(); var decoded PropertyPath;
\* err := decoded.UnmarshalText(text)
RoundTripCall ==
    /\ pathCall.op # "RoundTrip"
    /\ LET text == PathString(paths, Latest)
           decoded == NewNode(paths, 0, NilValue)
           r == UnmarshalText(decoded.h, decoded.path, text)
       IN  /\ paths' = r.h
           /\ built' = built \o [q \in 1..(Len(r.h) - Len(paths)) |-> NotByWith(q = 1)]
           /\ pathCall' = [op |-> "RoundTrip", path |-> Latest, arg |-> text,
                           ret |-> r.err, new |-> decoded.path]
    /\ UNCHANGED <<engineVars, listVars, asyncVars, heapVars, parseVars, validatorVars, sliceVars>>

NextRoundTrip ==
    \/ ExtendPath
    \/ RoundTripCall

SpecRoundTrip == Init /\ [][NextRoundTrip]_vars

----------------------------------------------------------------------------
(* One call of UnmarshalText on a path the caller holds, character by        *)
(* character: the loop of Parse handles the characters of the text one at a  *)
(* time; at the first error, or at the end of the text, Parse returns and    *)
(* UnmarshalText stores the parsed path into the receiver or returns the     *)
(* error.                                                                    *)

\* the characters of the texts a caller hands to UnmarshalText
ParseChars == {"a", "1", "[", "]", "'", "\\", ".", ArabicThree}

\* the digits of math.MaxInt + 1
TooManyDigits == <<"9", "2", "2", "3", "3", "7", "2", "0", "3", "6",
                   "8", "5", "4", "7", "7", "5", "8", "0", "8">>

\* the path a caller decodes into: a zero-value path or the path b
ReceiverCall ==
    /\ paths = <<>>
    /\ parsed.pc = "idle"
    /\ ZeroPathCall \/ WithPropertyOn(0, <<"b">>)

\* UnmarshalText is called: parser := pathParser{}
UnmarshalTextBegin ==
    /\ parsed.pc = "idle"
    /\ \E p \in Held \ {0} :
            parsed' = [pc |-> "parsing", receiver |-> p, before |-> paths[p],
                       atEnd |-> FALSE, path |-> 0, err |-> Pending]
    /\ pathParser' = NewParser(paths)
    /\ fed' = <<>>
    /\ UNCHANGED <<engineVars, listVars, asyncVars, heapVars, pathVars, validatorVars, sliceVars>>

\* the number of bytes of a text
RECURSIVE ByteLen(_)
ByteLen(text) == IF text = <<>> THEN 0 ELSE Utf8Len(Head(text)) + ByteLen(Tail(text))

\* the loop of Parse handles the characters of text one after the other, up to
\* the first error
RECURSIVE HandleAll(_, _, _)
HandleAll(parser, text, offset) ==
    IF text = <<>> THEN Handled(parser)
    ELSE LET r == handleNext([parser EXCEPT !.index = offset], Head(text))
         IN  IF r.err # NoError THEN r
             ELSE HandleAll(r.parser, Tail(text), offset + Utf8Len(Head(text)))

\* the loop of Parse handles the next characters; on an error Parse returns
\* nil and the error, and UnmarshalText returns the error
FeedText(text) ==
    /\ parsed.pc = "parsing"
    /\ Len(fed) < MaxText
    /\ LET r == HandleAll(pathParser, text, ByteLen(fed))
       IN  /\ pathParser' = r.parser
           /\ parsed' = IF r.err # NoError
                        THEN [parsed EXCEPT !.pc = "returned", !.err = r.err]
                        ELSE parsed
    /\ fed' = fed \o text
    /\ UNCHANGED <<engineVars, listVars, asyncVars, heapVars, pathVars, validatorVars, sliceVars>>

\* the next character of the text is c
Feed(c) == FeedText(<<c>>)

\* the next characters of the text are the digits of an index above math.MaxInt
\* and the closing bracket
FeedDigits ==
    /\ pathParser.state = "beginIndexState"
    /\ FeedText(TooManyDigits \o <<"]">>)

\* the text ends: Parse returns what finish returns, or &PropertyPath{} for the
\* empty text, and UnmarshalText stores the path into the receiver
UnmarshalTextReturn ==
    /\ parsed.pc = "parsing"
    /\ LET r == IF fed = <<>> THEN Parse(paths, <<>>) ELSE finish(pathParser)
       IN  /\ parsed' = [parsed EXCEPT !.pc = "returned", !.atEnd = TRUE,
                                       !.path = r.path, !.err = r.err]
           /\ IF r.path = 0 \/ r.err # NoError
              THEN UNCHANGED <<paths, built>>
              ELSE /\ paths' = [r.h EXCEPT ![parsed.receiver] = r.h[r.path]]
                   /\ built' = [q \in DOMAIN r.h |->
                                    IF q > Len(paths) THEN NotByWith(FALSE)
                                    ELSE IF OnChain(paths, q, parsed.receiver)
                                    THEN NotByWith(built[q].held)
                                    ELSE built[q]]
    /\ UNCHANGED <<pathCall, pathParser, fed>>
    /\ UNCHANGED <<engineVars, listVars, asyncVars, heapVars, validatorVars, sliceVars>>

NextParse ==
    \/ ReceiverCall
    \/ UnmarshalTextBegin
    \/ \E c \in ParseChars : Feed(c)
    \/ FeedDigits
    \/ UnmarshalTextReturn

SpecParse == Init /\ [][NextParse]_vars

----------------------------------------------------------------------------
(* A caller deriving validators from one another with At, AtProperty,        *)
(* AtIndex and WithGroups                                                     *)

\* the violation factories: the one NewViolationFactory makes and one the
\* caller sets with SetViolationFactory
Factories == {"default", "custom"}

ValidatorCall(op, receiver, arg, h, r) ==
    /\ Len(r.vs) <= MaxValidators
    /\ Len(h) <= MaxPathNodes
    /\ paths' = h
    /\ validators' = r.vs
    /\ validatorCall' = [op |-> op, validator |-> receiver, arg |-> arg,
                         before |-> IF receiver = 0 THEN NilValue
                                    ELSE validators[receiver],
                         prefix |-> IF receiver = 0 THEN <<>>
                                    ELSE Elements(paths, validators[receiver].propertyPath),
                         new |-> r.v]
    /\ UNCHANGED <<built, pathCall>>
    /\ UNCHANGED <<engineVars, listVars, asyncVars, heapVars, parseVars, sliceVars>>

NewValidatorCall ==
    \E factory \in Factories :
        ValidatorCall("NewValidator", 0, <<>>, paths, NewValidatorOn(validators, factory))

ValidatorAtCall ==
    \E v \in DOMAIN validators : \E path \in WithArguments :
        LET r == AtOn(paths, validators, v, path)
        IN  ValidatorCall("At", v, path, r.h, r)

ValidatorAtPropertyCall ==
    \E v \in DOMAIN validators : \E name \in {<<"a">>, <<"b">>} :
        LET r == AtPropertyOn(paths, validators, v, name)
        IN  ValidatorCall("AtProperty", v, name, r.h, r)

ValidatorAtIndexCall ==
    \E v \in DOMAIN validators : \E index \in {0, 1} :
        LET r == AtIndexOn(paths, validators, v, index)
        IN  ValidatorCall("AtIndex", v, index, r.h, r)

ValidatorWithGroupsCall ==
    \E v \in DOMAIN validators : \E groups \in GroupLists :
        ValidatorCall("WithGroups", v, groups, paths, WithGroupsOn(validators, v, groups))

NextValidator ==
    \/ NewValidatorCall
    \/ ValidatorAtCall
    \/ ValidatorAtPropertyCall
    \/ ValidatorAtIndexCall
    \/ ValidatorWithGroupsCall

SpecValidator == Init /\ [][NextValidator]_vars

----------------------------------------------------------------------------
(* A caller validating values with ChoiceConstraint, CountConstraint and      *)
(* RegexpConstraint, some of them misconfigured, under validation groups      *)

\* Largest number of typed arguments a caller hands to Validate.
MaxTyped == 2

WhenConditions == BOOLEAN

\* a compiled pattern that matches "ab" alone
SomeRegexp == [matches |-> {"ab"}]

CallComparable ==
    /\ nextId <= MaxTyped
    /\ \E choices \in {{}, {"x"}} : \E disallowBlank \in BOOLEAN :
       \E condition \in WhenConditions : \E groups \in {<<>>, <<"admin">>} :
       \E value \in {NilValue, Pointer(""), Pointer("x"), Pointer("y")} :
            Build(TypedArg("Comparable", nextId, value,
                    <<ChoiceConstraint(choices, disallowBlank, ~condition, groups)>>), 0)

CallCountable ==
    /\ nextId <= MaxTyped
    /\ \E condition \in WhenConditions : \E groups \in {<<>>, <<"admin">>} :
       \E count \in {0, 3} :
            \/ \E divisor \in {-1, 0, 2} :
                    Build(TypedArg("Countable", nextId, count,
                            <<HasCountDivisibleBy(divisor, ~condition, groups)>>), 0)
            \/ Build(TypedArg("Countable", nextId, count,
                            <<HasMinCount(1, ~condition, groups)>>), 0)

CallString ==
    /\ nextId <= MaxTyped
    /\ \E regex \in {NilValue, SomeRegexp} : \E match \in BOOLEAN :
       \E condition \in WhenConditions : \E groups \in {<<>>, <<"admin">>} :
       \E value \in {NilValue, Pointer(""), Pointer("ab"), Pointer("zz")} :
            Build(TypedArg("String", nextId, value,
                    <<RegexpConstraint(regex, match, ~condition, groups)>>), 0)

NextConstraints ==
    \/ CallComparable
    \/ CallCountable
    \/ CallString
    \/ CallValidateWithGroups

SpecConstraints == Init /\ [][NextConstraints]_vars

----------------------------------------------------------------------------
(* A caller that places arguments with At: This(...).At(...), All(...).At(...) *)
(* and arguments derived with At from an argument the caller goes on using,   *)
(* validated by a validator with or without a path prefix                      *)

\* Largest number of arguments such a caller builds.
MaxPlaced == 2

Email == PropertyName(<<"e", "m", "a", "i", "l">>)
Age == PropertyName(<<"a", "g", "e">>)

PlacedElements == {Email, Age}

\* an argument with the nil path its constructor leaves
Unplaced(arg) == [arg EXCEPT !.path = NilSlice]

BuildPlaced(arg, k, own, as) ==
    /\ pc = "build"
    /\ nextId <= MaxPlaced
    /\ arguments' = FirstArgs(k) \o <<[arg EXCEPT !.id = nextId]>>
    /\ nextId' = nextId + 1
    /\ declared' = Append(declared, own)
    /\ arrays' = as
    /\ UNCHANGED <<pc, result, executed, validator>>
    /\ UNCHANGED <<listVars, asyncVars, heapVars, pathVars, parseVars, validatorVars>>

\* This(v, constraint) with a constraint that finds a violation
CallThisPlaced == BuildPlaced(Unplaced(This(nextId, <<"violation">>)), 0, <<>>, arrays)

\* All(arguments...) of the last k arguments
CallAllPlaced ==
    \E k \in 1..Len(arguments) :
        BuildPlaced(Unplaced(All(nextId, LastArgs(k))), k, <<>>, arrays)

\* arguments[i] = arguments[i].At(element): the caller keeps the result alone
CallAt ==
    /\ pc = "build"
    /\ \E i \in DOMAIN arguments : \E element \in PlacedElements :
        LET r == ArgumentAt(arrays, arguments[i], <<element>>)
        IN  /\ r.arg.path.len <= MaxPath
            /\ arguments' = [arguments EXCEPT ![i] = r.arg]
            /\ declared' = [declared EXCEPT ![arguments[i].id] = Append(@, element)]
            /\ arrays' = r.as
    /\ UNCHANGED <<nextId, pc, result, executed, validator>>
    /\ UNCHANGED <<listVars, asyncVars, heapVars, pathVars, parseVars, validatorVars>>

\* derived := arguments[i].At(element) of a This argument: the caller goes on
\* using arguments[i] and hands both to Validate
CallAtOfKept ==
    \E i \in DOMAIN arguments : \E element \in PlacedElements :
        LET r == ArgumentAt(arrays, arguments[i], <<element>>)
        IN  /\ arguments[i].type = "This"
            /\ r.arg.path.len <= MaxPath
            /\ BuildPlaced(r.arg, 0, Append(declared[arguments[i].id], element), r.as)

\* validator.At(prefix...).Validate(ctx, arguments...)
CallValidatePlaced ==
    /\ pc = "build"
    /\ \E prefix \in {<<>>, <<ArrayIndex(0)>>} :
            LET r == Validate(ValidatorAt(validator, prefix), ResolveAll(arrays, arguments))
            IN  /\ validator' = ValidatorAt(validator, prefix)
                /\ result' = r.err
                /\ executed' = r.exec
    /\ pc' = "done"
    /\ UNCHANGED <<arguments, nextId>>
    /\ UNCHANGED <<listVars, asyncVars, heapVars, pathVars, parseVars, validatorVars, sliceVars>>

NextPlaced ==
    \/ CallThisPlaced
    \/ CallAllPlaced
    \/ CallAt
    \/ CallAtOfKept
    \/ CallValidatePlaced

SpecPlaced == Init /\ [][NextPlaced]_vars

----------------------------------------------------------------------------
(* A caller that switches arguments on and off with When(condition): This,   *)
(* Sequentially, AtLeastOneOf, All and Async, each possibly followed by one   *)
(* or more When calls, validated by Validate; an Async is the only argument   *)
(* of its Validate call, and its goroutines run as in SpecAsync.              *)

\* Largest number of arguments such a caller builds.
MaxIgnored == 3

\* the caller has built no Async yet
NoAsync == \A i \in DOMAIN arguments : arguments[i].type # "Async"

BuildIgnorable(arg, k) == nextId <= MaxIgnored /\ NoAsync /\ Build(arg, k)

CallThisIgnorable == \E cs \in ThisConstraints : BuildIgnorable(This(nextId, cs), 0)

CallSequentiallyIgnorable ==
    \E k \in 1..Len(arguments) : BuildIgnorable(Sequentially(nextId, LastArgs(k)), k)

CallAtLeastOneOfIgnorable ==
    \E k \in 1..Len(arguments) : BuildIgnorable(AtLeastOneOf(nextId, LastArgs(k)), k)

CallAllIgnorable ==
    \E k \in 1..Len(arguments) : BuildIgnorable(All(nextId, LastArgs(k)), k)

\* Async(arguments...) over everything built so far, nothing included
CallAsync == BuildIgnorable(Async(nextId, arguments), Len(arguments))

\* arg = arg.When(condition) on the argument built last
WhenOfLast(condition) ==
    /\ pc = "build"
    /\ arguments # <<>>
    /\ arguments' = [arguments EXCEPT ![Len(arguments)] = ArgumentWhen(@, condition)]
    /\ UNCHANGED <<nextId, pc, result, executed, validator>>
    /\ UNCHANGED <<listVars, asyncVars, heapVars, pathVars, parseVars, validatorVars, sliceVars>>

CallWhenOfLast == \E condition \in BOOLEAN : WhenOfLast(condition)

CallValidateIgnorable == NoAsync /\ CallValidate

\* validator.Validate(ctx, Async(...)): AsyncArgument.validate up to the range
\* loop.  An ignored Async returns at once; otherwise the tasks take over the
\* sub-arguments, which from here on are what arguments holds.
AsyncValidate ==
    /\ pc = "build"
    /\ asyncPc = "idle"
    /\ Len(arguments) = 1
    /\ arguments[1].type = "Async"
    /\ pc' = "async"
    /\ IF arguments[1].isIgnored
       THEN /\ asyncPc' = "returned"
            /\ asyncResult' = [vs |-> EmptyList, err |-> NoError]
            /\ UNCHANGED <<arguments, tasks, waiter, asyncViolations>>
       ELSE /\ asyncPc' = "receive"
            /\ arguments' = arguments[1].arguments
            /\ tasks' = [i \in DOMAIN arguments[1].arguments |->
                            [pc |-> "running", err |-> Pending]]
            /\ waiter' = Len(arguments[1].arguments)
            /\ asyncViolations' = EmptyList
            /\ UNCHANGED asyncResult
    /\ UNCHANGED <<nextId, result, executed, validator>>
    /\ UNCHANGED <<errs, received, asyncCtx, callerCtx, merged>>
    /\ UNCHANGED <<listVars, heapVars, pathVars, parseVars, validatorVars, sliceVars>>

NextIgnored ==
    \/ CallThisIgnorable
    \/ CallSequentiallyIgnorable
    \/ CallAtLeastOneOfIgnorable
    \/ CallAllIgnorable
    \/ CallAsync
    \/ CallWhenOfLast
    \/ CallValidateIgnorable
    \/ AsyncValidate
    \/ \E i \in DOMAIN tasks : TaskValidate(i)
    \/ \E i \in DOMAIN tasks : Receive(i)
    \/ \E i \in DOMAIN tasks : TaskDone(i)
    \/ CloseErrs
    \/ AsyncMerge
    \/ AsyncReturn

SpecIgnored == Init /\ [][NextIgnored]_vars

----------------------------------------------------------------------------
(* Observations the properties are stated with *)

Range(s) == {s[i] : i \in DOMAIN s}

\* the sub-arguments of an argument, of whatever kind
Children(arg) == arg.arguments \o arg.thenArguments \o arg.elseArguments

RECURSIVE Ids(_)
Ids(arg) == {arg.id} \cup UNION {Ids(Children(arg)[i]) : i \in DOMAIN Children(arg)}

IdsOf(args) == UNION {Ids(args[i]) : i \in DOMAIN args}

\* every argument of a tree with the validator its closure is run under
RECURSIVE NodesOf(_, _)
NodesOf(arg, v) ==
    LET w == ValidatorAt(v, arg.path)
    IN  {[arg |-> arg, v |-> w]}
            \cup UNION {NodesOf(Children(arg)[i], w) : i \in DOMAIN Children(arg)}

Nodes == UNION {NodesOf(arguments[i], validator) : i \in DOMAIN arguments}

Ran(id) == id \in Range(executed)

NoneRan(ids) == ids \cap Range(executed) = {}

ViolationsOf(err) == IF err.kind = "list" THEN err.list.elems ELSE <<>>

\* the error of validating the i-th of args on its own
Sub(args, v, i) == Validate(v, <<args[i]>>).err

\* the violations of args[i], args[i+1], ... each validated on its own, in order
RECURSIVE SubViolations(_, _, _)
SubViolations(args, v, i) ==
    IF i > Len(args) THEN <<>>
    ELSE ViolationsOf(Sub(args, v, i)) \o SubViolations(args, v, i + 1)

\* the least index of a set of indices, 0 when it is empty
Least(S) == IF S = {} THEN 0 ELSE CHOOSE i \in S : \A j \in S : i <= j

\* the closures the top-level Validate call registers, and what each yields
Registered == setUpAll(<<>>, arguments, 1)

Closure(i) == ArgValidate(Registered[i].validate, ValidatorAt(validator, Registered[i].path))

RECURSIVE ClosureViolations(_), ClosureExec(_)
ClosureViolations(i) ==
    IF i > Len(Registered) THEN <<>> ELSE Closure(i).vs.elems \o ClosureViolations(i + 1)

ClosureExec(i) ==
    IF i > Len(Registered) THEN <<>> ELSE Closure(i).exec \o ClosureExec(i + 1)

\* a well-formed list: the len field counts the violations
WellFormed(l) == ~l.isNil /\ l.len = Len(l.elems)

----------------------------------------------------------------------------
(* Properties *)

\* C1: when a closure registered in a Validate call returns a fault, Validate
\* returns exactly that fault and no violation list, and no closure registered
\* after the faulting one runs, even when earlier closures produced violations.
C1_FaultAbortsValidate ==
    pc = "done" =>
        \A i \in DOMAIN Registered :
            (Closure(i).err # NoError /\ \A j \in 1..(i - 1) : Closure(j).err = NoError)
                => /\ Closure(i).err.kind = "fault"
                   /\ result = Closure(i).err
                   /\ \A j \in 1..i : Ran(Registered[j].validate.id)
                   /\ \A j \in (i + 1)..Len(Registered) : NoneRan(Ids(Registered[j].validate))

C1_Witness ==
    /\ pc = "done"
    /\ Len(Registered) = 3
    /\ Closure(1).err = NoError /\ Closure(1).vs.len > 0
    /\ Closure(2).err.kind = "fault"
    /\ result = Closure(2).err
    /\ ~Ran(Registered[3].validate.id)

\* C2: when no closure faults, Validate runs every registered closure exactly
\* once in declaration order, also after closures that produced violations, and
\* the returned list holds the violations of the closures in declaration order.
C2_DeclarationOrder ==
    (pc = "done" /\ \A i \in DOMAIN Registered : Closure(i).err = NoError) =>
        LET IsTop(id) == \E i \in DOMAIN Registered : Registered[i].validate.id = id
        IN  /\ SelectSeq(executed, IsTop)
                = [i \in DOMAIN Registered |-> Registered[i].validate.id]
            /\ executed = ClosureExec(1)
            /\ result.kind \in {"nil", "list"}
            /\ ViolationsOf(result) = ClosureViolations(1)

C2_Witness ==
    /\ pc = "done"
    /\ Len(Registered) = 3
    /\ \A i \in DOMAIN Registered : Closure(i).err = NoError
    /\ Closure(1).vs.len = 1 /\ Closure(2).vs.len = 0 /\ Closure(3).vs.len = 1
    /\ result.kind = "list" /\ result.list.len = 2
    /\ Len(executed) = 3

\* C3: Validate returns nil exactly when no closure it ran produced a violation
\* or a fault; a ViolationListError it returns is non-nil and has length >= 1.
C3_NilOrNonEmpty ==
    pc = "done" =>
        /\ result = NoError <=>
                \A i \in DOMAIN Registered :
                    Ran(Registered[i].validate.id)
                        => Closure(i).err = NoError /\ Closure(i).vs.len = 0
        /\ result.kind = "list" => WellFormed(result.list) /\ result.list.len >= 1
        /\ \A n \in Nodes :
                LET e == Validate(n.v, <<n.arg>>).err
                IN  e.kind = "list" => WellFormed(e.list) /\ e.list.len >= 1

C3_Witness ==
    /\ pc = "done"
    /\ result = NoError
    /\ Len(Registered) = 2
    /\ Ran(Registered[1].validate.id) /\ Ran(Registered[2].validate.id)
    /\ \E n \in Nodes : n.arg.type = "This" /\ Ran(n.arg.id)
                            /\ ThisValidate(n.arg, n.v).vs.len > 0

\* what an error is once every wrapper around it is taken off
RECURSIVE Innermost(_)
Innermost(err) == IF err.kind = "wrap" THEN Innermost(err.inner) ELSE err

\* C4: AppendFromError(err) has exactly one of four outcomes: a nil err leaves
\* the list unchanged and returns nil; an err that unwraps to a Violation appends
\* that violation and returns nil; an err that unwraps to a ViolationListError
\* joins its violations in order and returns nil; any other err is returned
\* unchanged and the list (length and contents) is left unchanged.
C4_AppendFromErrorClassifies ==
    lastCall.op = "AppendFromError" =>
        LET e == lastCall.err
            core == Innermost(e)
            before == lastCall.before
        IN  /\ core.kind \in {"nil", "violation", "list", "fault"}
            /\ e = NoError => violationList = before /\ lastCall.ret = NoError
            /\ core.kind = "violation" =>
                    /\ violationList.elems = before.elems \o <<core>>
                    /\ violationList.len = before.len + 1
                    /\ lastCall.ret = NoError
            /\ core.kind = "list" =>
                    /\ violationList.elems = before.elems \o core.list.elems
                    /\ violationList.len = before.len + Len(core.list.elems)
                    /\ lastCall.ret = NoError
            /\ core.kind = "fault" => violationList = before /\ lastCall.ret = e
            /\ WellFormed(violationList)

C4_Witness ==
    /\ lastCall.op = "AppendFromError"
    /\ lastCall.err.kind = "wrap"
    /\ lastCall.err.inner.kind = "fault"
    /\ lastCall.ret = lastCall.err
    /\ lastCall.before.len = 2
    /\ violationList = lastCall.before

\* an argument that ran is the only top-level argument
IsWhole(n) == arguments = <<n.arg>>

\* C5: a fault produced by a closure that ran, nested at any depth inside
\* Sequentially, All, AtLeastOneOf, When or WhenGroups, makes the top-level Validate return
\* exactly that fault: it is never turned into or put inside a violation list,
\* and the violations enclosing combinators had collected are not returned.
C5_NestedFaultPropagates ==
    pc = "done" =>
        \A n \in Nodes :
            (n.arg.type = "This" /\ Ran(n.arg.id) /\ ThisValidate(n.arg, n.v).err # NoError)
                => /\ result = ThisValidate(n.arg, n.v).err
                   /\ result.kind = "fault"
                   /\ result.origin[1] = n.arg.id

C5_Witness ==
    /\ pc = "done"
    /\ Len(arguments) = 1
    /\ arguments[1].type = "All"
    /\ Len(arguments[1].arguments) = 2
    /\ arguments[1].arguments[1].constraints = <<"violation">>
    /\ arguments[1].arguments[2].type = "WhenGroups"
    /\ \E n \in NodesOf(arguments[1].arguments[2], validator) :
            /\ n.arg.constraints = <<"fault">>
            /\ Ran(n.arg.id)
            /\ result = Fault(<<n.arg.id, 1, 0>>)

\* C6: Sequentially(A1..An) runs its sub-arguments in order and stops at the
\* first one that yields at least one violation: the closures of all later
\* sub-arguments never run and the result is exactly the violations of that
\* first failing sub-argument, or empty when none fails.
C6_SequentiallyStopsAtFirstFailure ==
    pc = "done" =>
        \A n \in Nodes :
            (n.arg.type = "Sequentially" /\ Ran(n.arg.id)) =>
                LET args == n.arg.arguments
                    f == Least({i \in DOMAIN args : Sub(args, n.v, i) # NoError})
                    r == ArgValidate(n.arg, n.v)
                IN  IF f = 0
                    THEN /\ r.err = NoError /\ r.vs = EmptyList
                         /\ \A j \in DOMAIN args : Ran(args[j].id)
                         /\ IsWhole(n) => result = NoError
                    ELSE Sub(args, n.v, f).kind = "list" =>
                         /\ r.err = NoError
                         /\ WellFormed(r.vs)
                         /\ r.vs.elems = ViolationsOf(Sub(args, n.v, f))
                         /\ \A j \in 1..f : Ran(args[j].id)
                         /\ \A j \in (f + 1)..Len(args) : NoneRan(Ids(args[j]))
                         /\ IsWhole(n) => result = Sub(args, n.v, f)

C6_Witness ==
    /\ pc = "done"
    /\ Len(arguments) = 1
    /\ arguments[1].type = "Sequentially"
    /\ Len(arguments[1].arguments) = 3
    /\ Sub(arguments[1].arguments, validator, 1) = NoError
    /\ Sub(arguments[1].arguments, validator, 2).kind = "list"
    /\ Sub(arguments[1].arguments, validator, 3) # NoError
    /\ Ran(arguments[1].arguments[2].id)
    /\ ~Ran(arguments[1].arguments[3].id)
    /\ result = Sub(arguments[1].arguments, validator, 2)

\* C7: All(A1..An) runs every sub-argument whether or not earlier ones produced
\* violations (only a fault stops it); its result is the concatenation, in
\* declaration order, of the violations of all sub-arguments, so its length is
\* the sum of their violation counts.
C7_AllConcatenates ==
    pc = "done" =>
        \A n \in Nodes :
            (n.arg.type = "All" /\ Ran(n.arg.id)) =>
                LET args == n.arg.arguments
                    f == Least({i \in DOMAIN args : Sub(args, n.v, i).kind = "fault"})
                    r == ArgValidate(n.arg, n.v)
                IN  IF f = 0
                    THEN /\ r.err = NoError
                         /\ WellFormed(r.vs)
                         /\ r.vs.elems = SubViolations(args, n.v, 1)
                         /\ \A j \in DOMAIN args : Ran(args[j].id)
                         /\ IsWhole(n) => ViolationsOf(result) = SubViolations(args, n.v, 1)
                    ELSE /\ r.err = Sub(args, n.v, f)
                         /\ \A j \in 1..f : Ran(args[j].id)
                         /\ \A j \in (f + 1)..Len(args) : NoneRan(Ids(args[j]))

C7_Witness ==
    /\ pc = "done"
    /\ Len(arguments) = 1
    /\ arguments[1].type = "All"
    /\ Len(arguments[1].arguments) = 3
    /\ Len(ViolationsOf(Sub(arguments[1].arguments, validator, 1))) = 1
    /\ Sub(arguments[1].arguments, validator, 2) = NoError
    /\ Len(ViolationsOf(Sub(arguments[1].arguments, validator, 3))) = 1
    /\ \A j \in 1..3 : Ran(arguments[1].arguments[j].id)
    /\ result.kind = "list" /\ result.list.len = 2

\* C8: AtLeastOneOf(A1..An) runs its sub-arguments in order and, as soon as one
\* yields zero violations, returns zero violations: the violations of earlier
\* failing sub-arguments are dropped and the closures of all later
\* sub-arguments never run.
C8_AtLeastOneOfSucceedsEarly ==
    pc = "done" =>
        \A n \in Nodes :
            (n.arg.type = "AtLeastOneOf" /\ Ran(n.arg.id)) =>
                LET args == n.arg.arguments
                    z == Least({i \in DOMAIN args : Sub(args, n.v, i).kind # "list"})
                    r == ArgValidate(n.arg, n.v)
                IN  (z # 0 /\ Sub(args, n.v, z) = NoError) =>
                        /\ r.err = NoError /\ r.vs = EmptyList
                        /\ \A j \in 1..z : Ran(args[j].id)
                        /\ \A j \in (z + 1)..Len(args) : NoneRan(Ids(args[j]))
                        /\ IsWhole(n) => result = NoError

C8_Witness ==
    /\ pc = "done"
    /\ Len(arguments) = 1
    /\ arguments[1].type = "AtLeastOneOf"
    /\ Len(arguments[1].arguments) = 3
    /\ Sub(arguments[1].arguments, validator, 1).kind = "list"
    /\ Sub(arguments[1].arguments, validator, 2) = NoError
    /\ Ran(arguments[1].arguments[1].id)
    /\ Ran(arguments[1].arguments[2].id)
    /\ ~Ran(arguments[1].arguments[3].id)
    /\ result = NoError

\* C9: when every sub-argument of AtLeastOneOf yields at least one violation and
\* none faults, every sub-argument runs and the result is the union of all their
\* violations in declaration order.
C9_AtLeastOneOfAllFail ==
    pc = "done" =>
        \A n \in Nodes :
            (/\ n.arg.type = "AtLeastOneOf"
             /\ Ran(n.arg.id)
             /\ \A i \in DOMAIN n.arg.arguments : Sub(n.arg.arguments, n.v, i).kind = "list") =>
                LET args == n.arg.arguments
                    r == ArgValidate(n.arg, n.v)
                IN  /\ r.err = NoError
                    /\ WellFormed(r.vs)
                    /\ r.vs.elems = SubViolations(args, n.v, 1)
                    /\ \A j \in DOMAIN args : Ran(args[j].id)
                    /\ IsWhole(n) => ViolationsOf(result) = SubViolations(args, n.v, 1)

C9_Witness ==
    /\ pc = "done"
    /\ Len(arguments) = 1
    /\ arguments[1].type = "AtLeastOneOf"
    /\ Len(arguments[1].arguments) = 3
    /\ \A i \in 1..3 : Sub(arguments[1].arguments, validator, i).kind = "list"
    /\ \A i \in 1..3 : Ran(arguments[1].arguments[i].id)
    /\ result.kind = "list" /\ result.list.len = 3

\* C10: When(cond).Then(T...).Else(E...) runs exactly one of the two argument
\* sets, the Then arguments when cond is true and the Else arguments when it is
\* false; no closure of the other set runs, and the result is exactly the
\* result of validating the selected set.
C10_WhenSelectsOneBranch ==
    pc = "done" =>
        \A n \in Nodes :
            (n.arg.type = "When" /\ Ran(n.arg.id)) =>
                LET selected == IF n.arg.isTrue THEN n.arg.thenArguments
                                ELSE n.arg.elseArguments
                    other == IF n.arg.isTrue THEN n.arg.elseArguments
                             ELSE n.arg.thenArguments
                    s == Validate(n.v, selected)
                    r == ArgValidate(n.arg, n.v)
                IN  /\ NoneRan(IdsOf(other))
                    /\ Range(s.exec) \subseteq Range(executed)
                    /\ selected # <<>> => Ran(selected[1].id)
                    /\ IF s.err.kind = "fault"
                       THEN r.err = s.err
                       ELSE r.err = NoError /\ AsError(r.vs) = s.err
                    /\ IsWhole(n) => result = s.err

C10_Witness ==
    /\ pc = "done"
    /\ Len(arguments) = 1
    /\ arguments[1].type = "When"
    /\ ~arguments[1].isTrue
    /\ Len(arguments[1].thenArguments) = 1
    /\ Len(arguments[1].elseArguments) = 2
    /\ Validate(validator, arguments[1].thenArguments).err.kind = "fault"
    /\ ~Ran(arguments[1].thenArguments[1].id)
    /\ Ran(arguments[1].elseArguments[1].id)
    /\ Ran(arguments[1].elseArguments[2].id)
    /\ result.kind = "list"

\* C11: WhenGroups(G).Then(X).Else(Y) runs the Then arguments only when the
\* validator applies for G and the Else arguments only otherwise: under a
\* validator scoped to "admin", WhenGroups("admin") runs X and never Y; under a
\* validator with no explicit groups it runs Y and never X.
C11_WhenGroupsSelectsByGroups ==
    pc = "done" =>
        \A n \in Nodes :
            (n.arg.type = "WhenGroups" /\ Ran(n.arg.id)) =>
                LET applied == IsAppliedForGroups(n.v, n.arg.groups)
                    selected == IF applied THEN n.arg.thenArguments ELSE n.arg.elseArguments
                    other == IF applied THEN n.arg.elseArguments ELSE n.arg.thenArguments
                    s == Validate(n.v, selected)
                    r == ArgValidate(n.arg, n.v)
                IN  /\ NoneRan(IdsOf(other))
                    /\ Range(s.exec) \subseteq Range(executed)
                    /\ selected # <<>> => Ran(selected[1].id)
                    /\ IF s.err.kind = "fault"
                       THEN r.err = s.err
                       ELSE r.err = NoError /\ AsError(r.vs) = s.err
                    /\ IsWhole(n) => result = s.err
                    /\ (n.arg.groups = <<"admin">> /\ n.v.groups = <<"admin">>)
                            => selected = n.arg.thenArguments
                    /\ (n.arg.groups = <<"admin">> /\ n.v.groups = <<>>)
                            => selected = n.arg.elseArguments

C11_Witness ==
    /\ pc = "done"
    /\ validator.groups = <<"admin">>
    /\ Len(arguments) = 2
    /\ arguments[1].type = "WhenGroups" /\ arguments[1].groups = <<"admin">>
    /\ arguments[2].type = "This"
    /\ Len(arguments[1].thenArguments) = 1
    /\ Len(arguments[1].elseArguments) = 1
    /\ Ran(arguments[1].thenArguments[1].id)
    /\ ~Ran(arguments[1].elseArguments[1].id)
    /\ Ran(arguments[2].id)

\* the set of groups of a list, an empty list read as the default group alone
GroupSet(groups) == IF Len(groups) = 0 THEN {DefaultGroup} ELSE Range(groups)

\* C12: IsAppliedForGroups(G) on a validator with groups V is true exactly when
\* (V is empty and G is empty or contains the default group) or (V is not empty
\* and V intersects G, or G is empty and V contains the default group), that is
\* when V and G intersect after each empty one is read as {default};
\* IsIgnoredForGroups(G) is its negation.
C12_IsAppliedForGroups ==
    \A G \in GroupLists :
        LET V == validator.groups
            stated ==
                \/ Len(V) = 0 /\ (Len(G) = 0 \/ DefaultGroup \in Range(G))
                \/ /\ Len(V) # 0
                   /\ \/ Range(V) \cap Range(G) # {}
                      \/ Len(G) = 0 /\ DefaultGroup \in Range(V)
        IN  /\ IsAppliedForGroups(validator, G) <=> stated
            /\ stated <=> (GroupSet(V) \cap GroupSet(G) # {})
            /\ IsIgnoredForGroups(validator, G) <=> ~IsAppliedForGroups(validator, G)

C12_Witness ==
    /\ pc = "done"
    /\ validator.groups = <<"admin", DefaultGroup>>
    /\ Len(arguments) = 1
    /\ arguments[1].type = "WhenGroups" /\ arguments[1].groups = <<>>
    /\ Len(arguments[1].thenArguments) = 1
    /\ Len(arguments[1].elseArguments) = 1
    /\ arguments[1].elseArguments[1].type = "This"
    /\ arguments[1].thenArguments[1].type = "WhenGroups"
    /\ arguments[1].thenArguments[1].groups = <<"admin">>
    /\ IsAppliedForGroups(validator, <<>>)
    /\ Ran(arguments[1].thenArguments[1].id)
    /\ ~Ran(arguments[1].elseArguments[1].id)

\* the error task i of Async gets from validator.Validate(ctx, argument)
TaskErr(i) == Validate(validator, <<arguments[i]>>).err

\* the violations of the tasks order[k], order[k+1], ... one block after another
RECURSIVE TaskBlocks(_, _)
TaskBlocks(order, k) ==
    IF k > Len(order) THEN <<>>
    ELSE ViolationsOf(TaskErr(order[k])) \o TaskBlocks(order, k + 1)

\* the tasks whose send on errs has been received
Delivered == {i \in DOMAIN tasks : tasks[i].pc \in {"sent", "done"}}

\* AsyncArgument.validate has returned a fatal error
ReturnedFatal == asyncPc = "returned" /\ asyncResult.err # NoError

\* C13: when a task of Async yields a fatal error, Async returns that fatal
\* error only once all of its spawned tasks have finished; Async never returns
\* while one of its tasks is still running or still waiting to deliver its
\* result.
C13_ReturnsAfterAllTasks ==
    asyncPc = "returned" =>
        /\ \A i \in DOMAIN tasks : tasks[i].pc \notin {"running", "sending"}
        /\ asyncResult.err # NoError =>
                \E i \in DOMAIN tasks : asyncResult.err = TaskErr(i)

C15_AsyncJoinsEveryTask ==
    (asyncPc = "returned" /\ \A i \in DOMAIN tasks : TaskErr(i).kind # "fault") =>
        /\ asyncResult.err = NoError
        /\ WellFormed(asyncResult.vs)
        /\ \E order \in Permutations(DOMAIN tasks) :
                asyncResult.vs.elems = TaskBlocks(order, 1)
        /\ asyncResult.vs.len = Len(TaskBlocks([i \in DOMAIN tasks |-> i], 1))
        /\ \A i \in DOMAIN tasks : \A x \in Range(ViolationsOf(TaskErr(i))) :
                Cardinality({k \in DOMAIN asyncResult.vs.elems :
                                asyncResult.vs.elems[k] = x}) = 1

C15_Witness ==
    /\ asyncPc = "returned"
    /\ Len(tasks) = 3
    /\ Len(ViolationsOf(TaskErr(1))) = 2
    /\ Len(ViolationsOf(TaskErr(2))) = 1
    /\ TaskErr(3) = NoError
    /\ asyncResult.err = NoError
    /\ asyncResult.vs.elems = TaskBlocks(<<2, 1>>, 1)
    /\ asyncResult.vs.len = 3

\* C16: Async cancels the context its tasks share when a task yields a fatal
\* error: once the fatal error is received no further task result is received
\* or merged, the shared context is cancelled by the time Async returns, and
\* the caller's own context is never cancelled by Async.
C16_FatalCancelsSharedContext ==
    /\ ~callerCtx.cancelled
    /\ ReturnedFatal =>
            /\ asyncCtx.cancelled
            /\ asyncResult.err = received.err
            /\ asyncResult.err.kind = "fault"
            /\ asyncResult.vs = NilList
            /\ received.task \notin Range(merged)
            /\ Delivered = Range(merged) \cup {received.task}
            /\ asyncViolations.elems = TaskBlocks(merged, 1)
            /\ \A k \in DOMAIN merged : TaskErr(merged[k]).kind # "fault"

C16_Witness ==
    /\ ReturnedFatal
    /\ asyncCtx.cancelled
    /\ Len(tasks) = 3
    /\ merged = <<3>>
    /\ received.task = 1
    /\ tasks[2].pc = "sending"
    /\ tasks[2].err.kind = "list"
    /\ asyncViolations.len = 1

\* the heap after the step
HeapAfter == [elements |-> elements', lists |-> lists']

\* C17: for a list built by Append of N violations followed by Join with a list
\* of M violations, Len() is N+M and iteration yields the N appended violations
\* in append order followed by the M joined ones in their order; Join with a nil
\* or an empty list changes nothing.
C17_AppendThenJoin ==
    [][\A l \in DOMAIN lists : \A m \in 0..Len(lists) :
            (/\ JoinOn(l, m)
             /\ BuiltByAppend(l)
             /\ m # 0 => (m # l /\ BuiltByAppend(m))) =>
                IF m = 0 \/ Len(Yields(Heap, m)) = 0
                THEN elements' = elements /\ lists' = lists
                ELSE /\ lists[l].len = Len(Yields(Heap, l))
                     /\ lists[m].len = Len(Yields(Heap, m))
                     /\ lists'[l].len = lists[l].len + lists[m].len
                     /\ Yields(HeapAfter, l) = Yields(Heap, l) \o Yields(Heap, m)
                     /\ ~IsCyclic(HeapAfter, l)]_vars

C17_Witness ==
    /\ heapCall.op = "Join"
    /\ heapCall.list = 1
    /\ heapCall.arg = 2
    /\ joinedInto = {1}
    /\ handed = {2}
    /\ lists[1].len = 3
    /\ lists[2].len = 1
    /\ Len(Yields(Heap, 1)) = 3
    /\ Yields(Heap, 1)[3] = Yields(Heap, 2)[1]
    /\ Yields(Heap, 1)[1] # Yields(Heap, 1)[2]

\* C18: for every ViolationListError reachable by any sequence of
\* NewViolationList, Append, Join, Filter and AppendFromError calls over a set
\* of lists, Len() equals the number of nodes reachable from first by following
\* next, and last is the final node of that chain.
C18_LenCountsLinkedNodes ==
    \A l \in DOMAIN lists :
        LET chain == Chain(Heap, lists[l].first, Len(elements) + 1)
        IN  /\ ~IsCyclic(Heap, l)
            /\ lists[l].len = Len(chain)
            /\ lists[l].last = IF chain = <<>> THEN 0 ELSE chain[Len(chain)]

\* C19: a ViolationListError is never mutated after being handed over: once a
\* list has been passed to Join, AppendFromError or Filter, an Append or Join on
\* another list does not change its length or the violations it yields.
C19_HandedListNotMutated ==
    [][\A l \in DOMAIN lists :
            (AppendOn(l) \/ \E m \in 0..Len(lists) : JoinOn(l, m)) =>
                \A k \in handed \ {l} :
                    /\ lists'[k].len = lists[k].len
                    /\ Yields(HeapAfter, k) = Yields(Heap, k)]_vars

\* some kind of kinds matches the violation
MatchesOneOf(violation, kinds) == \E j \in DOMAIN kinds : ViolationIs(violation, kinds[j])

\* C20: list.Filter(kinds...) returns a new list that holds only violations of
\* the receiver whose error Is one of the kinds, holds every such violation,
\* and leaves the receiver's length and contents unchanged.
C20_FilterKeepsMatching ==
    [][\A l \in DOMAIN lists : \A kinds \in FilterKinds :
            ListFilterOn(l, kinds) =>
                LET new == Len(lists) + 1
                    before == Yields(Heap, l)
                    after == Yields(HeapAfter, new)
                IN  /\ Len(lists') = new
                    /\ lists'[new].len = Len(after)
                    /\ \A k \in DOMAIN after :
                            after[k] \in Range(before) /\ MatchesOneOf(after[k], kinds)
                    /\ \A k \in DOMAIN before :
                            MatchesOneOf(before[k], kinds) => before[k] \in Range(after)
                    /\ Range(Chain(HeapAfter, lists'[new].first, Len(elements') + 1))
                            \cap DOMAIN elements = {}
                    /\ \A k \in DOMAIN lists :
                            lists'[k] = lists[k] /\ Yields(HeapAfter, k) = Yields(Heap, k)
                    /\ \A e \in DOMAIN elements : elements'[e] = elements[e]]_vars

C20_Witness ==
    /\ heapCall.op = "ListFilter"
    /\ heapCall.list = 1
    /\ heapCall.arg = <<2>>
    /\ heapCall.new = 2
    /\ lists[1].len = 2
    /\ ~MatchesOneOf(Yields(Heap, 1)[1], <<2>>)
    /\ MatchesOneOf(Yields(Heap, 1)[2], <<2>>)
    /\ lists[2].len = 1
    /\ Yields(Heap, 2) = <<Yields(Heap, 1)[2]>>

\* the least of a non-empty set of indices
Lowest(S) == CHOOSE i \in S : \A j \in S : i <= j

\* C21: ForEach(fn) calls fn on the violations in list order with consecutive
\* indices starting at 0, stops at the first call for which fn returns an error
\* and returns that error without calling fn on any later violation, and returns
\* nil when fn never fails or the list is nil or empty.
C21_ForEachShortCircuits ==
    heapCall.op = "ForEach" =>
        LET violations == IF heapCall.list = 0 THEN <<>> ELSE Yields(Heap, heapCall.list)
            failing == {i \in heapCall.arg : i < Len(violations)}
            calls == heapCall.ret.calls
        IN  /\ \A k \in DOMAIN calls :
                    calls[k].i = k - 1 /\ calls[k].violation = violations[k]
            /\ IF failing = {}
               THEN Len(calls) = Len(violations) /\ heapCall.ret.err = NoError
               ELSE /\ Len(calls) = Lowest(failing) + 1
                    /\ heapCall.ret.err = ForEachError(Lowest(failing))

C21_Witness ==
    /\ heapCall.op = "ForEach"
    /\ heapCall.list # 0
    /\ lists[heapCall.list].len = 3
    /\ heapCall.arg = {1, 2}
    /\ Len(heapCall.ret.calls) = 2
    /\ heapCall.ret.calls[2].i = 1
    /\ heapCall.ret.err = ForEachError(1)

\* what a call that derives a path from the path p by appending elems must leave
\* and yield: every node and every path as before, and the path returned holds
\* the elements of p followed by elems
DerivedFrom(p, elems) ==
    /\ \A q \in DOMAIN paths :
            paths'[q] = paths[q] /\ Elements(paths', q) = Elements(paths, q)
    /\ Elements(paths', IF elems = <<>> THEN p ELSE Len(paths'))
            = Elements(paths, p) \o elems

\* C22: With, WithProperty and WithIndex never mutate the receiver or any
\* existing node: the elements of the receiver and of every other path are the
\* same before and after the call, and the elements of the returned path are
\* the receiver's elements followed by the new ones.
C22_WithNeverMutates ==
    [][\A p \in Held :
            /\ \A elems \in WithArguments : WithOn(p, elems) => DerivedFrom(p, elems)
            /\ WithPropertyOn(p, <<"a">>) => DerivedFrom(p, <<PropertyName(<<"a">>)>>)
            /\ WithIndexOn(p, 0) => DerivedFrom(p, <<ArrayIndex(0)>>)]_vars

\* C23: for every path built by any sequence of With, WithProperty and
\* WithIndex calls starting from the nil root, Elements() returns exactly the
\* appended elements in root-to-leaf (insertion) order.
C23_ElementsInInsertionOrder ==
    \A q \in DOMAIN paths :
        built[q].pure => Elements(paths, q) = built[q].elems

C23_Witness ==
    /\ pathCall.op = "With"
    /\ paths # <<>>
    /\ built[Len(paths)].pure
    /\ built[Len(paths)].elems = <<PropertyName(<<"a">>), ArrayIndex(0), ArrayIndex(0)>>
    /\ Elements(paths, Len(paths)) = built[Len(paths)].elems
    /\ \E q \in DOMAIN paths : ~built[q].pure

\* C24: for every sequence of path elements (indices >= 0; property names that
\* are identifiers, non-identifiers, or contain quotes and backslashes), parsing
\* the text produced by String() succeeds and yields a path with exactly the
\* same elements in the same order.
C24_RoundTrip ==
    pathCall.op = "RoundTrip" =>
        /\ pathCall.ret = NoError
        /\ Elements(paths, pathCall.new) = Elements(paths, pathCall.path)

\* the last character of the text handled so far
LastFed == fed[Len(fed)]

C26_ParsingTotal ==
    parsed.pc = "returned" =>
        /\ \/ parsed.err = NoError /\ parsed.path # 0
           \/ /\ parsed.err.kind \in {"pathParsingError", "pathParsingCharError",
                                      "pathParsingProcessingError"}
              /\ parsed.path = 0
        /\ parsed.err # NoError =>
                /\ parsed.err.pathIndex = PathLen(pathParser.h, pathParser.path)
                /\ parsed.err.pathIndex = Len(Elements(pathParser.h, pathParser.path))
                /\ paths[parsed.receiver] = parsed.before
                /\ Len(paths) = 1
        /\ parsed.err = NoError =>
                paths[parsed.receiver] = paths[parsed.path]

C26_Witness ==
    /\ parsed.pc = "returned"
    /\ ~parsed.atEnd
    /\ fed = <<"a", ".", "a", "[">> \o TooManyDigits \o <<"]">>
    /\ parsed.err.kind = "pathParsingProcessingError"
    /\ parsed.err.pathIndex = 2
    /\ parsed.path = 0
    /\ parsed.before = [parent |-> 0, value |-> PropertyName(<<"b">>)]
    /\ paths[parsed.receiver] = parsed.before

\* the number of backslashes the text ends with
RECURSIVE TrailingBackslashes(_)
TrailingBackslashes(text) ==
    IF text = <<>> \/ text[Len(text)] # "\\" THEN 0
    ELSE 1 + TrailingBackslashes(SubSeq(text, 1, Len(text) - 1))

\* the character that comes next stands right behind a backslash that no
\* backslash before it has consumed
AfterBackslash == TrailingBackslashes(fed) % 2 = 1

\* C30: inside a quoted (bracketed) property name a backslash escapes only the
\* character immediately following it: when that character is a backslash or a
\* quote it is added literally to the name and does not end the name, and the
\* escape has no effect on any later character: a quote that is not immediately
\* preceded by an unconsumed backslash always ends the name.
C30_EscapeOnlyNextChar ==
    [][\A c \in {"'", "\\"} :
            (pathParser.state = "bracketedNameState" /\ Feed(c)) =>
                IF AfterBackslash
                THEN /\ pathParser'.buffer = Append(pathParser.buffer, c)
                     /\ pathParser'.state = "bracketedNameState"
                     /\ parsed'.pc = "parsing"
                ELSE c = "'" => pathParser'.state = "endBracketedNameState"]_vars

\* C27: deriving a sub-validator with At, AtProperty, AtIndex or WithGroups never
\* mutates the parent: after the call the parent's path prefix, groups and
\* violation factory are what they were, and the validator returned is another
\* Validator that shares the parent's factory and carries over whichever of
\* path prefix and groups the call did not replace.
C27_DerivingKeepsParent ==
    validatorCall.op \in {"At", "AtProperty", "AtIndex", "WithGroups"} =>
        LET parent == validators[validatorCall.validator]
            sub == validators[validatorCall.new]
        IN  /\ parent = validatorCall.before
            /\ Elements(paths, parent.propertyPath) = validatorCall.prefix
            /\ validatorCall.new # validatorCall.validator
            /\ sub.violationFactory = parent.violationFactory
            /\ validatorCall.op = "WithGroups" =>
                    /\ sub.propertyPath = parent.propertyPath
                    /\ sub.groups = validatorCall.arg
            /\ validatorCall.op # "WithGroups" => sub.groups = parent.groups

\* a validator with a custom factory, a path prefix and groups was derived from
\* with AtProperty, and the sub-validator's prefix is one element longer
C27_Witness ==
    /\ validatorCall.op = "AtProperty"
    /\ validatorCall.before.violationFactory = "custom"
    /\ validatorCall.before.groups # <<>>
    /\ validatorCall.prefix # <<>>
    /\ Elements(paths, validators[validatorCall.new].propertyPath)
            = validatorCall.prefix \o <<PropertyName(validatorCall.arg)>>

\* the constraint is one of the three misconfigured ones
Misconfigured(c) ==
    \/ c.type = "ChoiceConstraint" /\ c.choices = {}
    \/ c.type = "CountConstraint" /\ c.checkDivisible /\ c.divisibleBy <= 0
    \/ c.type = "RegexpConstraint" /\ c.regex = NilValue

\* the typed arguments whose closure Validate ran
TypedRan ==
    {i \in DOMAIN arguments :
        arguments[i].type \in {"Comparable", "Countable", "String"} /\ Ran(arguments[i].id)}

\* C28: a misconfigured constraint (a ChoiceConstraint with no choices, a
\* CountConstraint with a divisor <= 0, a RegexpConstraint with a nil pattern)
\* returns a ConstraintError whenever it is invoked, whatever its When and
\* WhenGroups setting and the value, and the enclosing Validate returns that
\* ConstraintError.
C28_MisconfiguredIsConstraintError ==
    pc = "done" =>
        \A i \in TypedRan :
            Misconfigured(arguments[i].constraints[1]) =>
                /\ TypedConstraintValidate(arguments[i], 1, validator).kind = "constraint"
                /\ result = TypedConstraintValidate(arguments[i], 1, validator)

\* the elements the caller declared from the top of the tree down to argument id:
\* the path of each enclosing combinator, outermost first, then the argument's own
RECURSIVE DeclaredIn(_, _)
DeclaredIn(args, id) ==
    LET i == CHOOSE j \in DOMAIN args : id \in Ids(args[j])
    IN  IF args[i].id = id THEN declared[id]
        ELSE declared[args[i].id] \o DeclaredIn(Children(args[i]), id)

\* two top-level arguments at email and at age, in that order, each with one
\* constraint that fails
EmailAndAge ==
    /\ Len(arguments) = 2
    /\ \A i \in 1..2 : arguments[i].type = "This" /\ Len(arguments[i].constraints) = 1
    /\ declared[arguments[1].id] = <<Email>>
    /\ declared[arguments[2].id] = <<Age>>

\* C29: every violation Validate returns carries the validator's path prefix,
\* followed by the path of each enclosing combinator, outermost first, followed by
\* the path of the argument that found it; two top-level arguments at email and at
\* age that fail one constraint each yield two violations, at email and at age, in
\* that order.
C29_ViolationsCarryResolvedPath ==
    pc = "done" =>
        /\ \A i \in DOMAIN ViolationsOf(result) :
              ViolationsOf(result)[i].path
                  = validator.propertyPath
                        \o DeclaredIn(arguments, ViolationsOf(result)[i].origin[1])
        /\ EmailAndAge =>
              /\ Len(ViolationsOf(result)) = 2
              /\ ViolationsOf(result)[1].path = validator.propertyPath \o <<Email>>
              /\ ViolationsOf(result)[2].path = validator.propertyPath \o <<Age>>

\* C31: in Async no ViolationListError is written by two concurrent activities:
\* the result of a task is written by the step of that task's own Validate call
\* alone, which writes nothing else, and the combined list is written by the
\* goroutine of the range loop alone, which joins into it the list of a task that
\* has completed its send, under every interleaving.
C31_ListsHaveOneWriter ==
    [][/\ asyncViolations' # asyncViolations =>
            /\ asyncPc \in {"idle", "merge"}
            /\ asyncPc = "merge" =>
                    /\ tasks' = tasks
                    /\ tasks[received.task].pc \in {"sent", "done"}
       /\ \A i \in DOMAIN tasks :
            tasks'[i].err # tasks[i].err =>
                /\ tasks[i].pc = "running"
                /\ asyncViolations' = asyncViolations
                /\ \A j \in DOMAIN tasks : j # i => tasks'[j] = tasks[j]]_vars

\* the range loop has joined the list of one task into the combined list while
\* another task is still running its Validate call
C31_Witness ==
    /\ asyncPc = "receive"
    /\ asyncViolations.len > 0
    /\ \E i \in DOMAIN tasks : tasks[i].pc = "running"
    /\ \E i \in DOMAIN tasks : tasks[i].pc = "done"

\* every task has sent its result and run waiter.Done(), and the closing
\* goroutine, if one was spawned, has closed the channel
AllTasksTerminated ==
    /\ \A i \in DOMAIN tasks : tasks[i].pc = "done"
    /\ ~asyncViolations.isNil => errs.closed

\* C32: every task spawned by Async eventually delivers its result and
\* terminates, also when another task yielded a fatal error: once Async has
\* returned, every task gets to the end and the closing goroutine closes the
\* channel.
C32_TasksTerminate == (asyncPc = "returned") ~> AllTasksTerminated

\* C33: Async always returns to its caller when every sub-validation terminates,
\* for any number of sub-arguments, zero included, and any mix of successful,
\* violating and faulting tasks, under every interleaving.
C33_AsyncReturns == (pc = "async") ~> (asyncPc = "returned")

\* Async has returned after three tasks, one without an error, one with
\* violations and one with a fatal error
C33_Witness ==
    /\ asyncPc = "returned"
    /\ Len(tasks) = 3
    /\ \E i \in DOMAIN tasks : tasks[i].err = NoError
    /\ \E i \in DOMAIN tasks : tasks[i].err.kind = "list"
    /\ \E i \in DOMAIN tasks : tasks[i].err.kind = "fault"

\* C34: after any sequence of Append and Join calls over a set of lists, a list
\* joined into itself and a list joined into two lists included, the node chain
\* of every list is acyclic, and a walk from first along next (ForEach, AsSlice,
\* Is, Filter, String) ends after at most Len() nodes.
C34_ChainsAcyclic ==
    \A l \in DOMAIN lists :
        /\ ~IsCyclic(Heap, l)
        /\ Len(Chain(Heap, lists[l].first, Len(elements) + 1)) <= lists[l].len

\* C35: the list that list.Filter(kinds...) returns holds each matching violation
\* of the receiver exactly once and in the receiver's order, so it is never
\* longer than the receiver, for every list of kinds, kinds that repeat or
\* overlap included.
C35_FilterKeepsEachOnce ==
    heapCall.op = "ListFilter" =>
        LET Matches(violation) == MatchesOneOf(violation, heapCall.arg)
        IN  /\ Yields(Heap, heapCall.new) = SelectSeq(Yields(Heap, heapCall.list), Matches)
            /\ lists[heapCall.new].len <= lists[heapCall.list].len

\* Len() of the path is the number of elements Elements() returns, none of them nil
LenCountsElements(h, path) ==
    /\ PathLen(h, path) = Len(Elements(h, path))
    /\ \A i \in DOMAIN Elements(h, path) : Elements(h, path)[i] # NilValue

\* C36: for every path that UnmarshalText leaves in its receiver, the path of
\* an empty text included, Len() equals the number of elements of Elements()
\* and no element is nil.
C36_LenIsNumberOfElements ==
    [][\A p \in Held \ {0} : \A text \in SomeTexts :
            (UnmarshalTextOn(p, text) /\ pathCall'.ret = NoError)
                => LenCountsElements(paths', p)]_vars

\* C37: every name for which isIdentifier is true (digits of any script after
\* the first character included) is accepted by the parser as an identifier
\* segment and parsed back to the same name.
C37_ParserAcceptsIdentifiers ==
    (parsed.pc = "returned" /\ isIdentifier(fed)) =>
        /\ parsed.atEnd
        /\ parsed.err = NoError
        /\ Elements(paths, parsed.receiver) = <<PropertyName(fed)>>

\* C38: At on an argument returns a new value and never changes the path of the
\* receiver or of any value derived from the same receiver before: every
\* argument the caller holds, other than the variable the result is assigned
\* to, has after the call the path elements it had before.
C38_AtKeepsOtherPaths ==
    [][(CallAt \/ CallAtOfKept) =>
            \A j \in DOMAIN arguments :
                arguments'[j].path = arguments[j].path =>
                    SliceElements(arrays', arguments'[j].path)
                        = SliceElements(arrays, arguments[j].path)]_vars

\* the arguments that found what an error holds: of its violations, or of the fault
OriginsOf(err) ==
    IF err.kind = "fault" THEN {err.origin[1]}
    ELSE {ViolationsOf(err)[i].origin[1] : i \in DOMAIN ViolationsOf(err)}

\* the arguments of the tree that the last When call on them switched off
Ignored == {n.arg : n \in {m \in Nodes : m.arg.isIgnored}}

\* C39: an argument switched off with When(false) does nothing.  After Validate
\* no closure of a sub-argument of an ignored Sequentially, AtLeastOneOf or All
\* has run, an ignored This has registered and run no closure, and the error
\* returned holds no violation and no fault of an ignored argument or of its
\* sub-arguments, a sub-argument that would fault included.  An ignored Async
\* returns an empty list and no error and spawns no task.  What a task of an
\* Async returns holds nothing of an ignored sub-argument either.  The last
\* When call decides.
C39_IgnoredDoesNothing ==
    /\ [](pc = "done" =>
            \A arg \in Ignored :
                /\ NoneRan(Ids(arg) \ {arg.id})
                /\ arg.type = "This" =>
                        /\ ~Ran(arg.id)
                        /\ \A i \in DOMAIN Registered : Registered[i].validate.id # arg.id
                /\ OriginsOf(result) \cap Ids(arg) = {})
    /\ [](pc = "async" =>
            /\ \A i \in DOMAIN arguments :
                    (arguments[i].type = "Async" /\ arguments[i].isIgnored) =>
                        /\ asyncPc = "returned"
                        /\ asyncResult = [vs |-> EmptyList, err |-> NoError]
                        /\ tasks = <<>>
                        /\ waiter = 0
                        /\ executed = <<>>
            /\ \A i \in DOMAIN tasks : \A arg \in Ignored :
                    OriginsOf(tasks[i].err) \cap Ids(arg) = {})
    /\ [][\A condition \in BOOLEAN :
            WhenOfLast(condition) =>
                arguments'[Len(arguments)].isIgnored = ~condition]_vars

\* Validate has returned the violation of This(...) alone: the Sequentially
\* before it, whose sub-argument would fault, was switched off
C39_Witness ==
    /\ pc = "done"
    /\ Len(arguments) = 2
    /\ arguments[1].type = "Sequentially"
    /\ arguments[1].isIgnored
    /\ arguments[1].arguments[1].constraints = <<"fault">>
    /\ ~arguments[1].arguments[1].isIgnored
    /\ arguments[2].constraints = <<"violation">>
    /\ Len(ViolationsOf(result)) = 1
    /\ OriginsOf(result) = {arguments[2].id}

====
